---- MODULE Spec2Model ----
(***************************************************************************)
(* procorg: execution supervision and state reconciliation.                *)
(*                                                                         *)
(* Several tool instances (one ProcessManager each) share one data         *)
(* directory.  An instance keeps the executions it started itself in       *)
(* memory; everything another instance knows of them it reads from the     *)
(* durable artifacts <execution_id>.stdout.log / .pid / .exitcode / .args. *)
(*                                                                         *)
(* Every instance has one caller thread (run_process, stop_process) and    *)
(* one monitoring thread per execution it started.  Each blocking call of  *)
(* the code (file write, spawn, signal, wait, poll) is one step, so that   *)
(* the steps of different threads and instances interleave as they do in   *)
(* the program.                                                            *)
(*                                                                         *)
(* Spec has callers that run and stop processes on two instances; LiveSpec *)
(* adds fairness of the monitoring threads and children that leave a       *)
(* descendant behind; SchedSpec has the scheduler loop of instance 1       *)
(* calling run_process while processes are enabled and disabled; CtlSpec   *)
(* has Scheduler.start / stop and the loop threads; RegSpec has two        *)
(* Storage objects writing the registry; StatusSpec has get_process_status *)
(* statement by statement over artifacts left by earlier programs;         *)
(* DemoteSpec has start() in a program of root or of the user; LockSpec    *)
(* has get_next_run beside the loop; CronSpec has the loop and a change of *)
(* the cron expression; CatchUpSpec has the loop over a longer time.       *)
(***************************************************************************)
EXTENDS Integers, Sequences, FiniteSets, TLC

\* ------------------------------------------------------------------ bounds
\* Executions constructed in one behaviour (over all instances and names).
MaxExec == 2
\* stop_process calls in one behaviour (over all instances and names).
MaxStops == 1
\* Last value of the wall clock, in sub-second ticks.
MaxTime == 1
\* Last value of the wall clock while the scheduler loop runs.
MaxSchedTime == 4
\* Last value of the wall clock in CatchUpSpec.
MaxCatchUpTime == 6
\* Ticks from one minute boundary to the next.
MinuteTicks == 2
\* enable / disable commands in one behaviour of the scheduler.
MaxToggles == 1
MaxStarts == 3
\* Sub-second ticks per second (the %f part of an execution_id).
SubPerSec == 2

Instances == {1, 2}
Names == {"a"}
ArgLists == {<<>>, <<"--fast">>}
\* Exit codes a script ends with by itself.
ScriptCodes == {0, 1}
SIGTERM == 15
SIGKILL == 9
Root == 0

\* Optional[...] values: None is the empty tuple, a value v is <<v>>.
None == <<>>
Some(v) == <<v>>
Val(o) == o[1]

Slots == 1..MaxExec

VARIABLES
  now,        \* datetime.now(), in ticks
  registry,   \* processes.json: name -> None or Some(definition)
  scripts,    \* the script paths that exist on disk (a path is named by its process)
  files,      \* logs/<name>/<execution_id>.*: name -> execution_id -> artifact set
  procs,      \* the OS process table: pid -> process
  nex,        \* number of ProcessExecution objects constructed so far
  ex,         \* slot -> ProcessExecution object (and its threads' positions)
  pc,         \* instance -> position of its caller thread
  cur,        \* instance -> locals of the call in progress
  ret,        \* instance -> what the last call returned
  nstop,      \* number of stop_process calls so far
  sched,      \* the Scheduler object of instance 1 and the position of its loop
  host        \* the user and group of each instance's program, and /etc/passwd

vars == <<host, sched, nstop, now, registry, scripts, files, procs, nex, ex, pc, cur, ret>>

\* ------------------------------------------------------- time and ids
\* datetime.now().strftime("%Y%m%d_%H%M%S_%f"): fixed width, seconds then fraction.
ExecutionId(t) == <<t \div SubPerSec, t % SubPerSec>>

\* datetime.isoformat(): seconds and the sub-second part (omitted when zero).
IsoFormat(t) == <<t \div SubPerSec, t % SubPerSec>>

\* The start time status() parses out of an execution_id: date and time, no fraction.
ParseStartTime(id) == <<id[1], 0>>

\* String order of two fixed-width ids.
LexLess(a, b) == a[1] < b[1] \/ (a[1] = b[1] /\ a[2] < b[2])

\* The last clock value of a behaviour.
Horizon == IF sched.running THEN sched.horizon ELSE MaxTime

Ids == {ExecutionId(t) : t \in 0..Horizon}

\* ------------------------------------------------------------ the registry
\* Storage.uid of instance i: the instances share one data directory.
UidOf(i) == 1000

\* Mutant of NewDefinition: the definition is stored disabled.
NewDefinitionDisabled(i, name, script_path, cron_expr, description, t) ==
  [name |-> name, script_path |-> script_path, cron_expr |-> cron_expr,
   description |-> description, created_at |-> IsoFormat(t), enabled |-> FALSE,
   owner_uid |-> UidOf(i)]

\* Storage.register_process: the definition stored for name by instance i at
\* time t.
NewDefinition(i, name, script_path, cron_expr, description, t) ==
  [name |-> name, script_path |-> script_path, cron_expr |-> cron_expr,
   description |-> description, created_at |-> IsoFormat(t), enabled |-> TRUE,
   owner_uid |-> UidOf(i)]

\* The definition of a name registered with its script and nothing else.
Definition(name) == NewDefinition(1, name, name, None, "", 0)

\* What processes.json holds for a name after the register, unregister and
\* update (enable / disable) commands issued before the behaviour starts.
Registrations(name) ==
  {None, Some(Definition(name)), Some([Definition(name) EXCEPT !.enabled = FALSE])}

\* Storage.get_process
GetProcess(name) == registry[name]

\* ------------------------------------------------------------- artifacts
\* pid_read and exitcode_read: what reading the file gives when it exists, the
\* number in it ("ok"), a text int() rejects ("garbled") or PermissionError
\* from open() ("denied").
NoArtifacts ==
  [log |-> FALSE, pid |-> None, exitcode |-> None, args |-> None,
   pid_read |-> "ok", exitcode_read |-> "ok"]

Artifacts(name, id) == files[name][id]

PidFileExists(name, id) == files[name][id].pid # None

\* ProcessManager._get_latest_execution_id: the greatest id that has a stdout log.
LoggedIds(name) == {id \in Ids : files[name][id].log}

\* Mutant of GetLatestExecutionId: the smallest id that has a stdout log.
GetOldestExecutionId(name) ==
  IF LoggedIds(name) = {} THEN None
  ELSE Some(CHOOSE id \in LoggedIds(name) : \A o \in LoggedIds(name) : o = id \/ LexLess(id, o))

GetLatestExecutionId(name) ==
  IF LoggedIds(name) = {} THEN None
  ELSE Some(CHOOSE id \in LoggedIds(name) : \A o \in LoggedIds(name) : o = id \/ LexLess(o, id))

\* --------------------------------------------------------- OS processes
\* desc: a descendant of the child is alive and holds the child's stdout/stderr.
\* sigs: the signals stop has sent to the process tree, in the order sent.
\* preexec: the calls of preexec_fn in the child, in the order made; cred: the
\* user and group of the child.
NoProc ==
  [state |-> "none", code |-> 0, term |-> FALSE, parent |-> 0, desc |-> FALSE,
   sigs |-> <<>>, preexec |-> <<>>, cred |-> None]

\* ------------------------------------------------------ users and groups
\* Every program runs as the user of the data directory, who is in /etc/passwd.
UserHost ==
  [getuid |-> [i \in Instances |-> UidOf(i)],
   getgid |-> [i \in Instances |-> 100],
   passwd |-> (UidOf(1) :> 100)]

\* The user and group of the program of instance i.
LauncherCred(i) == [uid |-> host.getuid[i], gid |-> host.getgid[i]]

\* pwd.getpwuid(uid).pw_gid; KeyError: None.
GetPwGid(uid) == IF uid \in DOMAIN host.passwd THEN Some(host.passwd[uid]) ELSE None

\* Mutant of Demote: the user is set first.
DemoteUserFirst(uid, gid) == << <<"setuid", uid>>, <<"setgid", gid>> >>

\* demote(uid, gid): the calls of set_ids.
Demote(uid, gid) == << <<"setgid", gid>>, <<"setuid", uid>> >>

\* preexec_fn of start() in instance i: demote for root, None otherwise and
\* for a uid that is not in /etc/passwd.
PreexecFn(i) ==
  IF host.getuid[i] = Root /\ GetPwGid(UidOf(i)) # None
    THEN Demote(UidOf(i), Val(GetPwGid(UidOf(i))))
    ELSE <<>>

\* os.setgid / os.setuid in a process with credentials cred: root may set any
\* id, any other user only the one it has; otherwise PermissionError.
SetIdAllowed(cred, call) ==
  \/ cred.uid = Root
  \/ call[1] = "setgid" /\ call[2] = cred.gid
  \/ call[1] = "setuid" /\ call[2] = cred.uid

SetId(cred, call) ==
  IF call[1] = "setgid" THEN [cred EXCEPT !.gid = call[2]] ELSE [cred EXCEPT !.uid = call[2]]

\* The child between fork and exec: preexec_fn runs call by call until one
\* raises. ok: all calls went through.
RECURSIVE RunPreexec(_, _, _)
RunPreexec(cred, calls, made) ==
  IF calls = <<>> THEN [cred |-> cred, preexec |-> made, ok |-> TRUE]
  ELSE IF ~SetIdAllowed(cred, Head(calls))
         THEN [cred |-> cred, preexec |-> Append(made, Head(calls)), ok |-> FALSE]
         ELSE RunPreexec(SetId(cred, Head(calls)), Tail(calls), Append(made, Head(calls)))

\* The child subprocess.Popen forks in instance i.
Forked(i) == RunPreexec(LauncherCred(i), PreexecFn(i), <<>>)

\* os.kill(pid, 0) succeeds: the pid names a process, running or a zombie.
PidExists(pid) == procs[pid].state \in {"alive", "zombie"}

\* -------------------------------------------------- ProcessExecution objects
NoExec ==
  [owner |-> 0, name |-> "", args |-> <<>>, execution_id |-> <<0, 0>>,
   pid |-> None, start_time |-> None, end_time |-> FALSE, exit_code |-> None,
   status |-> "none", started |-> "no", thread |-> "none"]

\* datetime.now(): some time not before the last one read.
ClockReads == now..Horizon

\* ProcessExecution.__init__ at time t
NewExecution(i, name, args, t) ==
  [owner |-> i, name |-> name, args |-> args, execution_id |-> ExecutionId(t),
   pid |-> None, start_time |-> None, end_time |-> FALSE, exit_code |-> None,
   status |-> "pending", started |-> "no", thread |-> "none"]

\* ProcessManager.executions[name] of instance i, as slots in append order.
History(i, name) ==
  SelectSeq([k \in 1..nex |-> k], LAMBDA k : ex[k].owner = i /\ ex[k].name = name)

\* registry and kwargs: the dictionary a Storage call has loaded and the
\* arguments it was given.
\* locked: the call holds self.lock of its ProcessManager; is_running: the
\* local of get_process_status.
NoCall ==
  [name |-> "", args |-> <<>>, k |-> 0, pid |-> 0, id |-> <<0, 0>>,
   registry |-> <<>>, kwargs |-> <<>>, locked |-> FALSE, is_running |-> FALSE]
NoRet == [op |-> "none", ok |-> FALSE, k |-> 0]

Return(i, r) ==
  /\ pc' = [pc EXCEPT ![i] = "idle"]
  /\ cur' = [cur EXCEPT ![i] = NoCall]
  /\ ret' = [ret EXCEPT ![i] = r]

Goto(i, label) == pc' = [pc EXCEPT ![i] = label]

\* Scheduler.__init__: not running, no next_runs. processes, idx, name and tnow
\* are the locals of _check_and_run; runs lists the scheduled executions
\* announced and run (name, due time, now); ntoggle counts enable / disable
\* commands.
\* thread is self.thread (0: None, else an index of loops), loops the position
\* of every thread start() has created, ctl the position of the thread that
\* calls start() and stop(), nstart the number of start() calls; lock: a
\* thread holds self.lock; got: what get_next_run returned last.
NoSched ==
  [running |-> FALSE, pc |-> "sleep", processes |-> <<>>, idx |-> 0, tnow |-> 0,
   next_runs |-> <<>>, runs |-> <<>>, ntoggle |-> 0,
   thread |-> 0, loops |-> <<>>, ctl |-> "idle", nstart |-> 0,
   lock |-> FALSE, got |-> None, horizon |-> MaxSchedTime]

\* ------------------------------------------------------------------- Init
Init ==
  /\ sched = NoSched
  /\ host = UserHost
  /\ now = 0
  /\ registry \in {r \in [Names -> UNION {Registrations(n) : n \in Names}] :
                     \A n \in Names : r[n] \in Registrations(n)}
  /\ scripts \in SUBSET Names
  /\ files = [n \in Names |-> [id \in Ids |-> NoArtifacts]]
  /\ procs = [p \in Slots |-> NoProc]
  /\ nex = 0
  /\ ex = [k \in Slots |-> NoExec]
  /\ pc = [i \in Instances |-> "idle"]
  /\ cur = [i \in Instances |-> NoCall]
  /\ ret = [i \in Instances |-> NoRet]
  /\ nstop = 0

\* ------------------------------------------------------------ environment
\* The child ends: by itself, or by the SIGTERM it was sent.
ChildExit(p) ==
  /\ procs[p].state = "alive"
  /\ \E c \in ScriptCodes \cup (IF procs[p].term THEN {-SIGTERM} ELSE {}) :
       procs' = [procs EXCEPT ![p].state = "zombie", ![p].code = c]
  /\ UNCHANGED <<host, sched, nstop, now, registry, scripts, files, nex, ex, pc, cur, ret>>

\* The child ends by itself and leaves a background descendant that lives on
\* and holds the stdout and stderr of the child open.
ChildExitForked(p) ==
  /\ procs[p].state = "alive"
  /\ \E c \in ScriptCodes :
       procs' = [procs EXCEPT ![p].state = "zombie", ![p].code = c, ![p].desc = TRUE]
  /\ UNCHANGED <<host, sched, nstop, now, registry, scripts, files, nex, ex, pc, cur, ret>>

\* The running child starts a descendant.
ChildForks(p) ==
  /\ procs[p].state = "alive"
  /\ ~procs[p].desc
  /\ procs' = [procs EXCEPT ![p].desc = TRUE]
  /\ UNCHANGED <<host, sched, nstop, now, registry, scripts, files, nex, ex, pc, cur, ret>>

\* The descendant ends.
DescExit(p) ==
  /\ procs[p].desc
  /\ procs' = [procs EXCEPT ![p].desc = FALSE]
  /\ UNCHANGED <<host, sched, nstop, now, registry, scripts, files, nex, ex, pc, cur, ret>>

\* ------------------------------------------------ ProcessManager.run_process
\* A caller asks instance i to run name with args.
RunProcess(i, name, args) ==
  /\ pc[i] = "idle"
  /\ nex + Cardinality({j \in Instances : pc[j] = "run_check"}) < MaxExec
  /\ pc' = [pc EXCEPT ![i] = "run_check"]
  /\ cur' = [cur EXCEPT ![i] = [NoCall EXCEPT !.name = name, !.args = args]]
  /\ ret' = [ret EXCEPT ![i] = NoRet]
  /\ UNCHANGED <<host, sched, nstop, now, registry, scripts, files, procs, nex, ex>>

\* Mutant of Rejects: the enabled flag is not looked at.
RejectsIgnoringEnabled(name) ==
  \/ GetProcess(name) = None
  \/ Val(GetProcess(name)).script_path \notin scripts

\* run_process rejects: not registered, disabled, or no script on disk.
Rejects(name) ==
  \/ GetProcess(name) = None
  \/ ~Val(GetProcess(name)).enabled
  \/ Val(GetProcess(name)).script_path \notin scripts

\* The registry lookup and the checks; then the ProcessExecution is constructed
\* and appended to executions[name] under the lock.
RunCheck(i) ==
  /\ pc[i] = "run_check"
  /\ IF Rejects(cur[i].name)
       THEN /\ Return(i, [op |-> "run", ok |-> FALSE, k |-> 0])
            /\ UNCHANGED <<now, nex, ex>>
       ELSE /\ \E t \in ClockReads :
                 /\ now' = t
                 /\ ex' = [ex EXCEPT ![nex + 1] =
                             NewExecution(i, cur[i].name, cur[i].args, t)]
            /\ nex' = nex + 1
            /\ cur' = [cur EXCEPT ![i].k = nex + 1]
            /\ Goto(i, "start_open")
            /\ UNCHANGED ret
  /\ UNCHANGED <<host, sched, nstop, registry, scripts, files, procs>>

\* ------------------------------------------------- ProcessExecution.start
\* Mutant of StartFail: the exit code is left unset.
StartFailNoExitCode(i) ==
  /\ ex' = [ex EXCEPT ![cur[i].k].status = "failed",
                      ![cur[i].k].started = "false"]
  /\ Return(i, [op |-> "run", ok |-> FALSE, k |-> 0])

\* The except branch of start(): status failed, exit code -1, start() returns
\* False and run_process returns None.
StartFail(i) ==
  /\ ex' = [ex EXCEPT ![cur[i].k].status = "failed",
                      ![cur[i].k].exit_code = Some(-1),
                      ![cur[i].k].started = "false"]
  /\ Return(i, [op |-> "run", ok |-> FALSE, k |-> 0])

\* The stdout and stderr logs are opened for writing (created or truncated).
StartOpenLogs(i) ==
  /\ pc[i] = "start_open"
  /\ \/ /\ files' = [files EXCEPT ![ex[cur[i].k].name][ex[cur[i].k].execution_id].log = TRUE]
        /\ Goto(i, "start_popen")
        /\ UNCHANGED <<ex, cur, ret>>
     \/ /\ StartFail(i)
        /\ UNCHANGED files
  /\ UNCHANGED <<host, sched, nstop, now, registry, scripts, procs, nex>>

\* subprocess.Popen, then pid, start_time and status = "running". An exception
\* of preexec_fn in the child is raised by Popen.
StartPopen(i) ==
  /\ pc[i] = "start_popen"
  /\ \/ /\ Forked(i).ok
        /\ procs' = [procs EXCEPT ![cur[i].k] =
                       [NoProc EXCEPT !.state = "alive", !.parent = i,
                                      !.preexec = Forked(i).preexec,
                                      !.cred = Some(Forked(i).cred)]]
        /\ \E t \in ClockReads :
             /\ now' = t
             /\ ex' = [ex EXCEPT ![cur[i].k].pid = Some(cur[i].k),
                                 ![cur[i].k].start_time = Some(t),
                                 ![cur[i].k].status = "running"]
        /\ Goto(i, "start_pid")
        /\ UNCHANGED <<cur, ret>>
     \/ /\ ~Forked(i).ok
        /\ procs' = [procs EXCEPT ![cur[i].k] =
                       [NoProc EXCEPT !.state = "gone", !.parent = i,
                                      !.preexec = Forked(i).preexec,
                                      !.cred = Some(Forked(i).cred)]]
        /\ StartFail(i)
        /\ UNCHANGED now
     \/ /\ StartFail(i)
        /\ UNCHANGED <<now, procs>>
  /\ UNCHANGED <<host, sched, nstop, registry, scripts, files, nex>>

\* Mutant of StartWritePid: start() goes on without writing the pid-file.
StartSkipPidFile(i) ==
  /\ pc[i] = "start_pid"
  /\ Goto(i, "start_args")
  /\ UNCHANGED <<host, sched, nstop, now, registry, scripts, files, procs, nex, ex, cur, ret>>

\* The pid is written to the pid-file.
StartWritePid(i) ==
  /\ pc[i] = "start_pid"
  /\ \/ /\ files' = [files EXCEPT ![ex[cur[i].k].name][ex[cur[i].k].execution_id].pid =
                       ex[cur[i].k].pid]
        /\ Goto(i, "start_args")
        /\ UNCHANGED <<ex, cur, ret>>
     \/ /\ StartFail(i)
        /\ UNCHANGED files
  /\ UNCHANGED <<host, sched, nstop, now, registry, scripts, procs, nex>>

\* The args-file is written when there are arguments, the monitoring thread is
\* started, start() returns True and run_process returns the execution.
StartFinish(i) ==
  /\ pc[i] = "start_args"
  /\ \/ /\ files' = [files EXCEPT ![ex[cur[i].k].name][ex[cur[i].k].execution_id].args =
                       IF ex[cur[i].k].args # <<>> THEN Some(ex[cur[i].k].args) ELSE @]
        /\ ex' = [ex EXCEPT ![cur[i].k].thread = "poll", ![cur[i].k].started = "true"]
        /\ Return(i, [op |-> "run", ok |-> TRUE, k |-> cur[i].k])
     \/ /\ ex[cur[i].k].args # <<>>
        /\ StartFail(i)
        /\ UNCHANGED files
  /\ UNCHANGED <<host, sched, nstop, now, registry, scripts, procs, nex>>

\* ----------------------------------------------- ProcessExecution._monitor
\* Mutant of Poll: a wait for the end of the child's output, which does not
\* come while a descendant holds the descriptors.
PollUntilOutputCloses(p) ==
  CASE procs[p].state = "alive" \/ procs[p].desc -> None
    [] procs[p].state = "zombie" -> Some(procs[p].code)
    [] OTHER -> Some(0)

\* Popen.poll() as the monitoring thread sees it: None while the child runs;
\* the child's status when poll() reaps it; 0 when the child was already
\* reaped by somebody else (waitpid fails with ECHILD).
Poll(p) ==
  CASE procs[p].state = "alive" -> None
    [] procs[p].state = "zombie" -> Some(procs[p].code)
    [] OTHER -> Some(0)

\* A poll that finds the child ended: it reaps the child and sets exit_code.
MonitorPoll(k) ==
  /\ ex[k].thread = "poll"
  /\ Poll(k) # None
  /\ procs' = [procs EXCEPT ![k].state = "gone"]
  /\ ex' = [ex EXCEPT ![k].exit_code = Poll(k), ![k].thread = "status"]
  /\ UNCHANGED <<host, sched, nstop, now, registry, scripts, files, nex, pc, cur, ret>>

\* Mutant of MonitorSetStatus: every ended child counts as completed.
MonitorSetCompleted(k) ==
  /\ ex[k].thread = "status"
  /\ ex' = [ex EXCEPT ![k].end_time = TRUE,
                      ![k].status = "completed",
                      ![k].thread = "exitcode"]
  /\ UNCHANGED <<host, sched, nstop, now, registry, scripts, files, procs, nex, pc, cur, ret>>

\* After the loop: end_time, and status completed for exit code 0, failed otherwise.
MonitorSetStatus(k) ==
  /\ ex[k].thread = "status"
  /\ ex' = [ex EXCEPT ![k].end_time = TRUE,
                      ![k].status = IF Val(ex[k].exit_code) = 0 THEN "completed" ELSE "failed",
                      ![k].thread = "exitcode"]
  /\ UNCHANGED <<host, sched, nstop, now, registry, scripts, files, procs, nex, pc, cur, ret>>

\* finally: the exit code is written to the exit-code-file.
MonitorSaveExitCode(k) ==
  /\ ex[k].thread = "exitcode"
  /\ files' = [files EXCEPT ![ex[k].name][ex[k].execution_id].exitcode =
                 IF ex[k].exit_code # None THEN ex[k].exit_code ELSE Some(-1)]
  /\ ex' = [ex EXCEPT ![k].thread = "unlink"]
  /\ UNCHANGED <<host, sched, nstop, now, registry, scripts, procs, nex, pc, cur, ret>>

\* Mutant of MonitorRemovePid: the monitoring thread ends and leaves the pid-file.
MonitorKeepPid(k) ==
  /\ ex[k].thread = "unlink"
  /\ ex' = [ex EXCEPT ![k].thread = "done"]
  /\ UNCHANGED <<host, sched, nstop, now, registry, scripts, files, procs, nex, pc, cur, ret>>

\* finally: the pid-file is removed if it exists.
MonitorRemovePid(k) ==
  /\ ex[k].thread = "unlink"
  /\ files' = [files EXCEPT ![ex[k].name][ex[k].execution_id].pid = None]
  /\ ex' = [ex EXCEPT ![k].thread = "done"]
  /\ UNCHANGED <<host, sched, nstop, now, registry, scripts, procs, nex, pc, cur, ret>>

\* ------------------------------------------------ ProcessManager.stop_process
\* get_running_execution: the last execution of the history with status running
\* (0 when there is none).
GetRunningExecution(i, name) ==
  LET h == History(i, name)
      r == {x \in 1..Len(h) : ex[h[x]].status = "running"}
  IN IF r = {} THEN 0 ELSE h[CHOOSE x \in r : \A y \in r : y <= x]

\* A caller asks instance i to stop name. With a running execution in memory the
\* call goes on in ProcessExecution.stop; otherwise the latest execution_id on
\* disk is looked up and its pid-file read; without one the call returns False.
StopProcess(i, name) ==
  /\ pc[i] = "idle"
  /\ nstop < MaxStops
  /\ IF GetRunningExecution(i, name) # 0
       THEN /\ pc' = [pc EXCEPT ![i] = "stop_mem"]
            /\ cur' = [cur EXCEPT ![i] = [NoCall EXCEPT !.name = name,
                                            !.k = GetRunningExecution(i, name)]]
            /\ ret' = [ret EXCEPT ![i] = NoRet]
       ELSE IF GetLatestExecutionId(name) # None
                 /\ PidFileExists(name, Val(GetLatestExecutionId(name)))
              THEN /\ pc' = [pc EXCEPT ![i] = "stop_fs"]
                   /\ cur' = [cur EXCEPT ![i] =
                        [NoCall EXCEPT !.name = name,
                           !.id = Val(GetLatestExecutionId(name)),
                           !.pid = Val(files[name][Val(GetLatestExecutionId(name))].pid)]]
                   /\ ret' = [ret EXCEPT ![i] = NoRet]
              ELSE Return(i, [op |-> "stop", ok |-> FALSE, k |-> 0])
  /\ nstop' = nstop + 1
  /\ UNCHANGED <<host, sched, now, registry, scripts, files, procs, nex, ex>>

\* parent.children(recursive=True): the descendants of a running process; those
\* of a process that has exited are no longer its own.
HasChildren(p) == procs[p].state = "alive" /\ procs[p].desc

\* Mutant of Signalled: the process first, its descendants after it.
SignalledParentFirst(p, sig) ==
  << <<"parent", sig>> >> \o (IF HasChildren(p) THEN << <<"child", sig>> >> ELSE <<>>)

\* The signals of "for child in parent.children(recursive=True): child.<sig>()"
\* followed by "parent.<sig>()", in the order sent.
Signalled(p, sig) ==
  (IF HasChildren(p) THEN << <<"child", sig>> >> ELSE <<>>) \o << <<"parent", sig>> >>

\* psutil's terminate() of the descendants and the process: SIGTERM to a running
\* process (a zombie takes no signal).
Terminate(p) ==
  [procs EXCEPT ![p].term = (procs[p].state = "alive") \/ @,
                ![p].sigs = @ \o Signalled(p, SIGTERM)]

\* psutil's kill() of the descendants and the process: SIGKILL ends what runs.
Kill(p) ==
  [procs EXCEPT ![p] =
     [@ EXCEPT !.state = IF @ = "alive" THEN "zombie" ELSE @,
               !.code = IF procs[p].state = "alive" THEN -SIGKILL ELSE @,
               !.desc = IF HasChildren(p) THEN FALSE ELSE @,
               !.sigs = @ \o Signalled(p, SIGKILL)]]

\* psutil's wait() returns: the process is gone; a zombie that is the caller's
\* own child is reaped by the wait itself.
WaitReturns(i, p) ==
  \/ ~PidExists(p)
  \/ procs[p].state = "zombie" /\ procs[p].parent = i

\* psutil's wait(timeout=5) raises TimeoutExpired: the process still runs, or it
\* is a zombie nobody reaps (not the caller's child, and no monitoring thread
\* polls it).
WaitTimesOut(i, p) ==
  \/ procs[p].state = "alive"
  \/ procs[p].state = "zombie" /\ procs[p].parent # i /\ ex[p].thread # "poll"

Reaped(p) == [procs EXCEPT ![p].state = IF @ = "zombie" THEN "gone" ELSE @]

\* ProcessExecution.stop up to terminate(): not running any more -> False;
\* psutil.Process(pid) raises NoSuchProcess -> status stopped, True.
StopTerminate(i) ==
  /\ pc[i] = "stop_mem"
  /\ IF ex[cur[i].k].status # "running"
       THEN /\ Return(i, [op |-> "stop", ok |-> FALSE, k |-> cur[i].k])
            /\ UNCHANGED <<procs, ex>>
       ELSE IF ~PidExists(Val(ex[cur[i].k].pid))
              THEN /\ ex' = [ex EXCEPT ![cur[i].k].status = "stopped"]
                   /\ Return(i, [op |-> "stop", ok |-> TRUE, k |-> cur[i].k])
                   /\ UNCHANGED procs
              ELSE /\ procs' = Terminate(Val(ex[cur[i].k].pid))
                   /\ Goto(i, "stop_mem_wait")
                   /\ UNCHANGED <<ex, cur, ret>>
  /\ UNCHANGED <<host, sched, nstop, now, registry, scripts, files, nex>>

\* ProcessExecution.stop from parent.wait(timeout=5): status stopped, end_time,
\* True; on the timeout (any other exception) False.
StopWait(i) ==
  /\ pc[i] = "stop_mem_wait"
  /\ \/ /\ WaitReturns(i, Val(ex[cur[i].k].pid))
        /\ procs' = Reaped(Val(ex[cur[i].k].pid))
        /\ ex' = [ex EXCEPT ![cur[i].k].status = "stopped", ![cur[i].k].end_time = TRUE]
        /\ Return(i, [op |-> "stop", ok |-> TRUE, k |-> cur[i].k])
     \/ /\ WaitTimesOut(i, Val(ex[cur[i].k].pid))
        /\ Return(i, [op |-> "stop", ok |-> FALSE, k |-> cur[i].k])
        /\ UNCHANGED <<procs, ex>>
  /\ UNCHANGED <<host, sched, nstop, now, registry, scripts, files, nex>>

\* pid_file.unlink() by stop_process. It removes the file; or it raises
\* PermissionError, which is passed over; or, the file being gone already, it
\* raises FileNotFoundError, which the outer handler turns into False.
PidFileRemoved(name, id) == [files EXCEPT ![name][id].pid = None]

\* The three outcomes of the unlink in a branch that then goes on with Done.
\* Done is TRUE for the branches that return True right after the unlink.
StopFsUnlinkThen(i, Done, label) ==
  \/ /\ PidFileExists(cur[i].name, cur[i].id)
     /\ files' \in {PidFileRemoved(cur[i].name, cur[i].id), files}
     /\ IF Done THEN Return(i, [op |-> "stop", ok |-> TRUE, k |-> 0])
                ELSE Goto(i, label) /\ UNCHANGED <<cur, ret>>
  \/ /\ ~PidFileExists(cur[i].name, cur[i].id)
     /\ Return(i, [op |-> "stop", ok |-> FALSE, k |-> 0])
     /\ UNCHANGED files

\* stop_process on the pid read from the pid-file, up to terminate():
\* NoSuchProcess -> the pid-file is removed, True.
StopFsTerminate(i) ==
  /\ pc[i] = "stop_fs"
  /\ IF ~PidExists(cur[i].pid)
       THEN /\ StopFsUnlinkThen(i, TRUE, "")
            /\ UNCHANGED procs
       ELSE /\ procs' = Terminate(cur[i].pid)
            /\ Goto(i, "stop_fs_wait")
            /\ UNCHANGED <<files, cur, ret>>
  /\ UNCHANGED <<host, sched, nstop, now, registry, scripts, nex, ex>>

\* stop_process: parent.wait(timeout=5)
StopFsWait(i) ==
  /\ pc[i] = "stop_fs_wait"
  /\ \/ /\ WaitReturns(i, cur[i].pid)
        /\ procs' = Reaped(cur[i].pid)
        /\ Goto(i, "stop_fs_unlink")
     \/ /\ WaitTimesOut(i, cur[i].pid)
        /\ Goto(i, "stop_fs_kill")
        /\ UNCHANGED procs
  /\ UNCHANGED <<host, sched, nstop, now, registry, scripts, files, nex, ex, cur, ret>>

\* stop_process after the wait: the pid-file is removed ...
StopFsUnlink(i) ==
  /\ pc[i] = "stop_fs_unlink"
  /\ StopFsUnlinkThen(i, FALSE, "stop_fs_exitcode")
  /\ UNCHANGED <<host, sched, nstop, now, registry, scripts, procs, nex, ex>>

\* ... and then "-15" is written to the exit-code-file (a PermissionError is
\* passed over); True.
StopFsWriteExitCode(i) ==
  /\ pc[i] = "stop_fs_exitcode"
  /\ files' \in {[files EXCEPT ![cur[i].name][cur[i].id].exitcode = Some(-SIGTERM)], files}
  /\ Return(i, [op |-> "stop", ok |-> TRUE, k |-> 0])
  /\ UNCHANGED <<host, sched, nstop, now, registry, scripts, procs, nex, ex>>

\* stop_process, the TimeoutExpired handler: kill() the descendants and the
\* process; NoSuchProcess
\* raised here leaves the handler and the call returns False.
StopFsKill(i) ==
  /\ pc[i] = "stop_fs_kill"
  /\ IF PidExists(cur[i].pid)
       THEN /\ procs' = Kill(cur[i].pid)
            /\ Goto(i, "stop_fs_kill_unlink")
            /\ UNCHANGED <<cur, ret>>
       ELSE /\ Return(i, [op |-> "stop", ok |-> FALSE, k |-> 0])
            /\ UNCHANGED procs
  /\ UNCHANGED <<host, sched, nstop, now, registry, scripts, files, nex, ex>>

\* The TimeoutExpired handler removes the pid-file; True.
StopFsKillUnlink(i) ==
  /\ pc[i] = "stop_fs_kill_unlink"
  /\ StopFsUnlinkThen(i, TRUE, "")
  /\ UNCHANGED <<host, sched, nstop, now, registry, scripts, procs, nex, ex>>

\* ---------------------------------------------- ProcessManager.get_process_status
\* ProcessExecution.get_info (end_time and duration: TRUE when set).
GetInfo(k) ==
  [execution_id |-> ex[k].execution_id,
   name |-> ex[k].name,
   pid |-> ex[k].pid,
   status |-> ex[k].status,
   args |-> ex[k].args,
   start_time |-> IF ex[k].start_time = None THEN None
                  ELSE Some(IsoFormat(Val(ex[k].start_time))),
   end_time |-> ex[k].end_time,
   exit_code |-> ex[k].exit_code,
   duration |-> ex[k].end_time /\ ex[k].start_time # None]

\* The liveness the filesystem path finds for execution id: the pid-file exists
\* and os.kill(pid, 0) succeeds.
RunningOnDisk(name, id) ==
  /\ PidFileExists(name, id)
  /\ files[name][id].pid_read = "ok"
  /\ PidExists(Val(files[name][id].pid))

\* The exit code get_process_status reads: none without the file or from a
\* text int() rejects.
ExitCodeOnDisk(name, id) ==
  IF files[name][id].exitcode_read = "ok" THEN files[name][id].exitcode ELSE None

\* The record get_process_status builds from the artifacts of execution id.
InfoFromDisk(name, id) ==
  [execution_id |-> id,
   name |-> name,
   pid |-> None,
   status |-> IF RunningOnDisk(name, id) THEN "running" ELSE "completed",
   start_time |-> Some(ParseStartTime(id)),
   end_time |-> FALSE,
   exit_code |-> ExitCodeOnDisk(name, id),
   duration |-> FALSE]

\* get_process_status: the history of this instance when it has one, the
\* artifacts of the latest execution_id otherwise.
GetProcessStatus(i, name) ==
  LET h == History(i, name)
      lid == GetLatestExecutionId(name)
  IN [name |-> name,
      latest_execution |->
        IF h # <<>> THEN Some(GetInfo(h[Len(h)]))
        ELSE IF lid # None THEN Some(InfoFromDisk(name, Val(lid)))
        ELSE None,
      total_executions |-> Len(h),
      running |->
        IF h # <<>> THEN \E x \in 1..Len(h) : ex[h[x]].status = "running"
        ELSE lid # None /\ RunningOnDisk(name, Val(lid))]

\* ------------------------------- get_process_status, statement by statement
\* The logs directory as earlier programs have left it: executions with a stdout
\* log, with or without pid-file and exit-code-file, readable or not; the pid
\* in a pid-file names a process of another program or none.
StatusArtifacts ==
  {NoArtifacts} \cup
  {[NoArtifacts EXCEPT !.log = TRUE, !.pid = p, !.exitcode = c,
                       !.pid_read = pr, !.exitcode_read = cr] :
     p \in {None, Some(1)}, c \in {None, Some(0)},
     pr \in {"ok", "garbled", "denied"}, cr \in {"ok", "garbled", "denied"}}

StatusInit ==
  /\ sched = NoSched
  /\ host = UserHost
  /\ now = 0
  /\ registry = [n \in Names |-> Some(Definition(n))]
  /\ scripts = Names
  /\ files \in [Names -> [Ids -> StatusArtifacts]]
  /\ \A n \in Names : \A id \in Ids :
       /\ files[n][id].pid = None => files[n][id].pid_read = "ok"
       /\ files[n][id].exitcode = None => files[n][id].exitcode_read = "ok"
  /\ procs \in {[p \in Slots |-> NoProc],
                [p \in Slots |-> IF p = 1 THEN [NoProc EXCEPT !.state = "alive"] ELSE NoProc]}
  /\ nex = 0
  /\ ex = [k \in Slots |-> NoExec]
  /\ pc = [i \in Instances |-> "idle"]
  /\ cur = [i \in Instances |-> NoCall]
  /\ ret = [i \in Instances |-> NoRet]
  /\ nstop = 0

\* What get_process_status returns.
StatusResult(i, name, info, running) ==
  [op |-> "status", ok |-> running, k |-> 0,
   status |-> [name |-> name, latest_execution |-> info,
               total_executions |-> Len(History(i, name)), running |-> running]]

\* A caller asks instance i for the status of name.
GetStatus(i, name) ==
  /\ pc[i] = "idle"
  /\ pc' = [pc EXCEPT ![i] = "status"]
  /\ cur' = [cur EXCEPT ![i] = [NoCall EXCEPT !.name = name]]
  /\ ret' = [ret EXCEPT ![i] = NoRet]
  /\ UNCHANGED <<host, sched, nstop, now, registry, scripts, files, procs, nex, ex>>

\* "with self.lock:" and the look at self.executions: with executions of name
\* the record of the last one is returned, which ends the with block.
StatusLock(i) ==
  /\ pc[i] = "status"
  /\ IF History(i, cur[i].name) # <<>>
       THEN Return(i, StatusResult(i, cur[i].name,
                                   GetProcessStatus(i, cur[i].name).latest_execution,
                                   GetProcessStatus(i, cur[i].name).running))
       ELSE /\ cur' = [cur EXCEPT ![i].locked = TRUE]
            /\ Goto(i, "status_scan")
            /\ UNCHANGED ret
  /\ UNCHANGED <<host, sched, nstop, now, registry, scripts, files, procs, nex, ex>>

\* _get_latest_execution_id: the directory of name is listed.
StatusScan(i) ==
  /\ pc[i] = "status_scan"
  /\ IF GetLatestExecutionId(cur[i].name) = None
       THEN Return(i, StatusResult(i, cur[i].name, None, FALSE))
       ELSE /\ cur' = [cur EXCEPT ![i].id = Val(GetLatestExecutionId(cur[i].name))]
            /\ Goto(i, "status_pid")
            /\ UNCHANGED ret
  /\ UNCHANGED <<host, sched, nstop, now, registry, scripts, files, procs, nex, ex>>

\* The exception of a read that "except (ValueError, FileNotFoundError)" does
\* not catch.
StatusEscapes(read) == read = "denied"

\* The pid-file is read and the pid probed with os.kill(pid, 0).
StatusPid(i) ==
  /\ pc[i] = "status_pid"
  /\ IF PidFileExists(cur[i].name, cur[i].id)
          /\ StatusEscapes(files[cur[i].name][cur[i].id].pid_read)
       THEN Return(i, [op |-> "raise", ok |-> FALSE, k |-> 0])
       ELSE /\ cur' = [cur EXCEPT ![i].is_running = RunningOnDisk(cur[i].name, cur[i].id)]
            /\ Goto(i, "status_exitcode")
            /\ UNCHANGED ret
  /\ UNCHANGED <<host, sched, nstop, now, registry, scripts, files, procs, nex, ex>>

\* The exit-code-file is read and the record returned, which ends the with
\* block.
StatusExitCode(i) ==
  /\ pc[i] = "status_exitcode"
  /\ IF files[cur[i].name][cur[i].id].exitcode # None
          /\ StatusEscapes(files[cur[i].name][cur[i].id].exitcode_read)
       THEN Return(i, [op |-> "raise", ok |-> FALSE, k |-> 0])
       ELSE Return(i, StatusResult(i, cur[i].name,
                      Some([InfoFromDisk(cur[i].name, cur[i].id) EXCEPT
                              !.status = IF cur[i].is_running THEN "running" ELSE "completed"]),
                      cur[i].is_running))
  /\ UNCHANGED <<host, sched, nstop, now, registry, scripts, files, procs, nex, ex>>

StatusNext ==
  \/ \E i \in Instances, n \in Names : GetStatus(i, n)
  \/ \E i \in Instances : StatusLock(i)
  \/ \E i \in Instances : StatusScan(i)
  \/ \E i \in Instances : StatusPid(i)
  \/ \E i \in Instances : StatusExitCode(i)

StatusSpec == StatusInit /\ [][StatusNext]_vars

\* ------------------------------------------------------------------ Next
Next ==
  \/ \E p \in Slots : ChildExit(p)
  \/ \E i \in Instances, n \in Names, a \in ArgLists : RunProcess(i, n, a)
  \/ \E i \in Instances : RunCheck(i)
  \/ \E i \in Instances : StartOpenLogs(i)
  \/ \E i \in Instances : StartPopen(i)
  \/ \E i \in Instances : StartWritePid(i)
  \/ \E i \in Instances : StartFinish(i)
  \/ \E k \in Slots : MonitorPoll(k)
  \/ \E k \in Slots : MonitorSetStatus(k)
  \/ \E k \in Slots : MonitorSaveExitCode(k)
  \/ \E k \in Slots : MonitorRemovePid(k)
  \/ \E i \in Instances, n \in Names : StopProcess(i, n)
  \/ \E i \in Instances : StopTerminate(i)
  \/ \E i \in Instances : StopWait(i)
  \/ \E i \in Instances : StopFsTerminate(i)
  \/ \E i \in Instances : StopFsWait(i)
  \/ \E i \in Instances : StopFsUnlink(i)
  \/ \E i \in Instances : StopFsWriteExitCode(i)
  \/ \E i \in Instances : StopFsKill(i)
  \/ \E i \in Instances : StopFsKillUnlink(i)

Spec == Init /\ [][Next]_vars

\* ------------------------------------------- the monitoring thread, fairly
\* One instance runs a process that is registered, enabled and has its script;
\* the child may leave a descendant behind; either instance may stop it. The
\* monitoring thread of an execution (a daemon thread that polls every 100 ms)
\* is scheduled fairly.
LiveInit ==
  /\ Init
  /\ \A n \in Names : registry[n] = Some(Definition(n)) /\ n \in scripts

LiveNext ==
  \/ \E p \in Slots : ChildExit(p)
  \/ \E p \in Slots : ChildExitForked(p)
  \/ \E p \in Slots : ChildForks(p)
  \/ \E p \in Slots : DescExit(p)
  \/ \E n \in Names : RunProcess(1, n, <<>>)
  \/ RunCheck(1)
  \/ StartOpenLogs(1)
  \/ StartPopen(1)
  \/ StartWritePid(1)
  \/ StartFinish(1)
  \/ \E k \in Slots : MonitorPoll(k)
  \/ \E k \in Slots : MonitorSetStatus(k)
  \/ \E k \in Slots : MonitorSaveExitCode(k)
  \/ \E k \in Slots : MonitorRemovePid(k)
  \/ \E i \in Instances, n \in Names : StopProcess(i, n)
  \/ \E i \in Instances : StopTerminate(i)
  \/ \E i \in Instances : StopWait(i)
  \/ \E i \in Instances : StopFsTerminate(i)
  \/ \E i \in Instances : StopFsWait(i)
  \/ \E i \in Instances : StopFsUnlink(i)
  \/ \E i \in Instances : StopFsWriteExitCode(i)
  \/ \E i \in Instances : StopFsKill(i)
  \/ \E i \in Instances : StopFsKillUnlink(i)

MonitorFairness ==
  \A k \in Slots :
    /\ WF_vars(MonitorPoll(k))
    /\ WF_vars(MonitorSetStatus(k))
    /\ WF_vars(MonitorSaveExitCode(k))
    /\ WF_vars(MonitorRemovePid(k))

LiveSpec == LiveInit /\ [][LiveNext]_vars /\ MonitorFairness

\* -------------------------------------------------------------- Scheduler
\* The scheduler loop runs in instance 1, whose ProcessManager it calls; the
\* only other activity is the enable / disable command.
SchedNames == {"a", "b"}

\* list(registry.values()): the order of registration.
SchedOrder == <<"a", "b">>

EveryMinute == "* * * * *"
Malformed == "* * *"

EveryOtherMinute == "*/2 * * * *"

\* croniter(expr, t) raises for an expression it cannot parse.
CronValid(expr) == expr \in {EveryMinute, EveryOtherMinute}

\* The distance of the due times of a valid expression, in clock ticks.
CronPeriod(expr) == IF expr = EveryOtherMinute THEN MinuteTicks + MinuteTicks ELSE MinuteTicks

\* croniter(expr, t).get_next(): the first due time of expr after t.
CronNext(expr, t) == ((t \div CronPeriod(expr)) + 1) * CronPeriod(expr)

\* t is a due time of expr: croniter yields it from some earlier base time.
IsDue(expr, t) == \E b \in 0..t : CronNext(expr, b) = t

\* Storage.list_processes
ListProcesses ==
  LET names == SelectSeq(SchedOrder, LAMBDA n : registry[n] # None)
  IN [x \in 1..Len(names) |-> Val(registry[names[x]])]

SchedInit ==
  /\ sched = [NoSched EXCEPT !.running = TRUE, !.next_runs = [n \in SchedNames |-> None]]
  /\ host = UserHost
  /\ now = 0
  /\ \E ca \in {EveryMinute, Malformed}, cb \in {None, Some(EveryMinute)} :
       registry = [n \in SchedNames |->
                     Some([Definition(n) EXCEPT !.cron_expr = IF n = "a" THEN Some(ca) ELSE cb])]
  /\ scripts = SchedNames
  /\ files = [n \in SchedNames |-> [id \in Ids |-> NoArtifacts]]
  /\ procs = [p \in Slots |-> NoProc]
  /\ nex = 0
  /\ ex = [k \in Slots |-> NoExec]
  /\ pc = [i \in Instances |-> "idle"]
  /\ cur = [i \in Instances |-> NoCall]
  /\ ret = [i \in Instances |-> NoRet]
  /\ nstop = 0

\* Storage.update_process(name, enabled=enable), the toggle command.
Toggle(name, enable) ==
  /\ sched.ntoggle < MaxToggles
  /\ registry[name] # None
  /\ Val(registry[name]).enabled # enable
  /\ registry' = [registry EXCEPT ![name] = Some([Val(@) EXCEPT !.enabled = enable])]
  /\ sched' = [sched EXCEPT !.ntoggle = @ + 1]
  /\ UNCHANGED <<host, nstop, now, scripts, files, procs, nex, ex, pc, cur, ret>>

\* run_process raises: the registry file cannot be loaded (it is being
\* rewritten by a command).
RunCheckRaises(i) ==
  /\ pc[i] = "run_check"
  /\ Return(i, [op |-> "raise", ok |-> FALSE, k |-> 0])
  /\ UNCHANGED <<host, sched, nstop, now, registry, scripts, files, procs, nex, ex>>

\* _check_and_run: the registry is read once for the tick.
SchedTick ==
  /\ sched.running
  /\ sched.pc = "sleep"
  /\ sched' = [sched EXCEPT !.pc = "loop", !.processes = ListProcesses, !.idx = 1]
  /\ UNCHANGED <<host, nstop, now, registry, scripts, files, procs, nex, ex, pc, cur, ret>>

\* Mutant of SchedError: an error ends the tick.
SchedErrorAbort(s) == [s EXCEPT !.pc = "sleep", !.processes = <<>>, !.idx = 0, !.tnow = 0]

\* except Exception inside the for loop: the error is printed and the loop goes
\* on with the next definition.
SchedError(s) == [s EXCEPT !.pc = "loop", !.idx = @ + 1, !.tnow = 0]

\* Mutant of SchedSkips: a running execution does not count.
SchedSkipsIgnoringRunning(d) ==
  \/ d.cron_expr = None
  \/ ~d.enabled

\* The definition the loop is at is not to be looked at: no cron expression,
\* disabled, or an execution of it is running.
SchedSkips(d) ==
  \/ d.cron_expr = None
  \/ ~d.enabled
  \/ GetRunningExecution(1, d.name) # 0

\* One iteration of the for loop up to the call of run_process: skip; or read
\* the clock, set next_runs when it is not set (croniter may raise), and when
\* the time has come call run_process.
SchedEval ==
  /\ sched.pc = "loop"
  /\ sched.idx <= Len(sched.processes)
  /\ LET d == sched.processes[sched.idx]
     IN IF SchedSkips(d)
          THEN /\ sched' = [sched EXCEPT !.idx = @ + 1]
               /\ UNCHANGED <<now, pc, cur, ret>>
          ELSE \E t \in ClockReads :
                 /\ now' = t
                 /\ IF sched.next_runs[d.name] = None /\ ~CronValid(Val(d.cron_expr))
                      THEN /\ sched' = SchedError(sched)
                           /\ UNCHANGED <<pc, cur, ret>>
                      ELSE LET due == IF sched.next_runs[d.name] = None
                                        THEN CronNext(Val(d.cron_expr), t)
                                        ELSE Val(sched.next_runs[d.name])
                           IN IF t >= due
                                THEN /\ nex < MaxExec
                                     /\ sched' = [sched EXCEPT !.pc = "run", !.tnow = t,
                                                               !.next_runs[d.name] = Some(due)]
                                     /\ pc' = [pc EXCEPT ![1] = "run_check"]
                                     /\ cur' = [cur EXCEPT ![1] = [NoCall EXCEPT !.name = d.name]]
                                     /\ ret' = [ret EXCEPT ![1] = NoRet]
                                ELSE /\ sched' = [sched EXCEPT !.idx = @ + 1,
                                                               !.next_runs[d.name] = Some(due)]
                                     /\ UNCHANGED <<pc, cur, ret>>
  /\ UNCHANGED <<host, nstop, registry, scripts, files, procs, nex, ex>>

\* Mutant of SchedAfterRun: next_runs is left as it was.
SchedAfterRunKeepDue ==
  /\ sched.pc = "run"
  /\ pc[1] = "idle"
  /\ LET d == sched.processes[sched.idx]
     IN sched' = IF ret[1].op = "raise" THEN SchedError(sched)
                 ELSE [sched EXCEPT
                         !.pc = "loop", !.idx = @ + 1, !.tnow = 0,
                         !.runs = Append(@, <<d.name, Val(sched.next_runs[d.name]), sched.tnow>>)]
  /\ UNCHANGED <<host, nstop, now, registry, scripts, files, procs, nex, ex, pc, cur, ret>>

\* run_process has returned: next_runs is set to the first boundary after the
\* now of this iteration. When run_process raised, the except clause is entered
\* instead and next_runs stays.
SchedAfterRun ==
  /\ sched.pc = "run"
  /\ pc[1] = "idle"
  /\ LET d == sched.processes[sched.idx]
     IN sched' = IF ret[1].op = "raise" THEN SchedError(sched)
                 ELSE [sched EXCEPT
                         !.pc = "loop", !.idx = @ + 1, !.tnow = 0,
                         !.next_runs[d.name] = Some(CronNext(Val(d.cron_expr), sched.tnow)),
                         !.runs = Append(@, <<d.name, Val(sched.next_runs[d.name]), sched.tnow>>)]
  /\ UNCHANGED <<host, nstop, now, registry, scripts, files, procs, nex, ex, pc, cur, ret>>

\* The for loop is through: time.sleep(1).
SchedEndTick ==
  /\ sched.pc = "loop"
  /\ sched.idx > Len(sched.processes)
  /\ sched' = [sched EXCEPT !.pc = "sleep", !.processes = <<>>, !.idx = 0]
  /\ UNCHANGED <<host, nstop, now, registry, scripts, files, procs, nex, ex, pc, cur, ret>>

SchedNext ==
  \/ SchedTick
  \/ SchedEval
  \/ SchedAfterRun
  \/ SchedEndTick
  \/ \E n \in SchedNames, e \in BOOLEAN : Toggle(n, e)
  \/ RunCheck(1)
  \/ RunCheckRaises(1)
  \/ StartOpenLogs(1)
  \/ StartPopen(1)
  \/ StartWritePid(1)
  \/ StartFinish(1)
  \/ \E p \in Slots : ChildExit(p)
  \/ \E k \in Slots : MonitorPoll(k)
  \/ \E k \in Slots : MonitorSetStatus(k)
  \/ \E k \in Slots : MonitorSaveExitCode(k)
  \/ \E k \in Slots : MonitorRemovePid(k)

SchedSpec == SchedInit /\ [][SchedNext]_vars

\* ------------------------------------------- Scheduler and a cron change
\* The scheduler loop of instance 1 over one scheduled definition, and the
\* command that gives the definition another cron expression.
CronInit ==
  /\ SchedInit
  /\ Val(registry["a"]).cron_expr = Some(EveryMinute)
  /\ Val(registry["b"]).cron_expr = None

\* Storage.update_process(name, cron_expr=expr)
UpdateCron(name, expr) ==
  /\ sched.ntoggle < MaxToggles
  /\ registry[name] # None
  /\ Val(registry[name]).cron_expr \notin {None, Some(expr)}
  /\ registry' = [registry EXCEPT ![name] = Some([Val(@) EXCEPT !.cron_expr = Some(expr)])]
  /\ sched' = [sched EXCEPT !.ntoggle = @ + 1]
  /\ UNCHANGED <<host, nstop, now, scripts, files, procs, nex, ex, pc, cur, ret>>

CronSchedNext ==
  \/ SchedTick
  \/ SchedEval
  \/ SchedAfterRun
  \/ SchedEndTick
  \/ \E n \in SchedNames, c \in {EveryMinute, EveryOtherMinute} : UpdateCron(n, c)
  \/ RunCheck(1)
  \/ RunCheckRaises(1)
  \/ StartOpenLogs(1)
  \/ StartPopen(1)
  \/ StartWritePid(1)
  \/ StartFinish(1)
  \/ \E p \in Slots : ChildExit(p)
  \/ \E k \in Slots : MonitorPoll(k)
  \/ \E k \in Slots : MonitorSetStatus(k)
  \/ \E k \in Slots : MonitorSaveExitCode(k)
  \/ \E k \in Slots : MonitorRemovePid(k)

CronSpec == CronInit /\ [][CronSchedNext]_vars

\* ------------------------------------- Scheduler and a long-running process
\* The scheduler loop of instance 1 over one scheduled definition, for a time
\* in which three of its due times pass.
CatchUpInit ==
  /\ sched = [NoSched EXCEPT !.running = TRUE, !.next_runs = [n \in SchedNames |-> None],
                             !.horizon = MaxCatchUpTime]
  /\ host = UserHost
  /\ now = 0
  /\ registry = [n \in SchedNames |->
                   Some([Definition(n) EXCEPT
                           !.cron_expr = IF n = "a" THEN Some(EveryMinute) ELSE None])]
  /\ scripts = SchedNames
  /\ files = [n \in SchedNames |-> [id \in Ids |-> NoArtifacts]]
  /\ procs = [p \in Slots |-> NoProc]
  /\ nex = 0
  /\ ex = [k \in Slots |-> NoExec]
  /\ pc = [i \in Instances |-> "idle"]
  /\ cur = [i \in Instances |-> NoCall]
  /\ ret = [i \in Instances |-> NoRet]
  /\ nstop = 0

CatchUpNext ==
  \/ SchedTick
  \/ SchedEval
  \/ SchedAfterRun
  \/ SchedEndTick
  \/ RunCheck(1)
  \/ RunCheckRaises(1)
  \/ StartOpenLogs(1)
  \/ StartPopen(1)
  \/ StartWritePid(1)
  \/ StartFinish(1)
  \/ \E p \in Slots : ChildExit(p)
  \/ \E k \in Slots : MonitorPoll(k)
  \/ \E k \in Slots : MonitorSetStatus(k)
  \/ \E k \in Slots : MonitorSaveExitCode(k)
  \/ \E k \in Slots : MonitorRemovePid(k)

CatchUpSpec == CatchUpInit /\ [][CatchUpNext]_vars

\* ------------------------------------------------- Scheduler.get_next_run
\* The scheduler loop over one process with a schedule, and a thread of the
\* same program that calls get_next_run.
LockInit ==
  /\ SchedInit
  /\ Val(registry["a"]).cron_expr = Some(EveryMinute)
  /\ Val(registry["b"]).cron_expr = None

\* get_next_run: "with self.lock:"
GetNextRunLock ==
  /\ ~sched.lock
  /\ sched' = [sched EXCEPT !.lock = TRUE]
  /\ UNCHANGED <<host, nstop, now, registry, scripts, files, procs, nex, ex, pc, cur, ret>>

\* get_next_run: "return self.next_runs.get(name)", which ends the with block.
GetNextRunReturn(name) ==
  /\ sched.lock
  /\ sched' = [sched EXCEPT !.lock = FALSE, !.got = sched.next_runs[name]]
  /\ UNCHANGED <<host, nstop, now, registry, scripts, files, procs, nex, ex, pc, cur, ret>>

LockNext ==
  \/ GetNextRunLock
  \/ \E n \in SchedNames : GetNextRunReturn(n)
  \/ SchedTick
  \/ SchedEval
  \/ SchedAfterRun
  \/ SchedEndTick
  \/ RunCheck(1)
  \/ RunCheckRaises(1)
  \/ StartOpenLogs(1)
  \/ StartPopen(1)
  \/ StartWritePid(1)
  \/ StartFinish(1)
  \/ \E p \in Slots : ChildExit(p)
  \/ \E k \in Slots : MonitorPoll(k)
  \/ \E k \in Slots : MonitorSetStatus(k)
  \/ \E k \in Slots : MonitorSaveExitCode(k)
  \/ \E k \in Slots : MonitorRemovePid(k)

LockSpec == LockInit /\ [][LockNext]_vars

\* --------------------------------------------- start() as root or as a user
\* Instance 1 runs as root or as the user of the data directory, who is or is
\* not in /etc/passwd.
DemoteInit ==
  /\ sched = NoSched
  /\ \E u \in {Root, UidOf(1)}, pw \in {<<>>, (UidOf(1) :> 100)} :
       host = [getuid |-> [i \in Instances |-> IF i = 1 THEN u ELSE UidOf(i)],
               getgid |-> [i \in Instances |-> IF i = 1 /\ u = Root THEN Root ELSE 100],
               passwd |-> pw]
  /\ now = 0
  /\ registry = [n \in Names |-> Some(Definition(n))]
  /\ scripts = Names
  /\ files = [n \in Names |-> [id \in Ids |-> NoArtifacts]]
  /\ procs = [p \in Slots |-> NoProc]
  /\ nex = 0
  /\ ex = [k \in Slots |-> NoExec]
  /\ pc = [i \in Instances |-> "idle"]
  /\ cur = [i \in Instances |-> NoCall]
  /\ ret = [i \in Instances |-> NoRet]
  /\ nstop = 0

DemoteNext ==
  \/ \E p \in Slots : ChildExit(p)
  \/ \E n \in Names, a \in ArgLists : RunProcess(1, n, a)
  \/ RunCheck(1)
  \/ StartOpenLogs(1)
  \/ StartPopen(1)
  \/ StartWritePid(1)
  \/ StartFinish(1)
  \/ \E k \in Slots : MonitorPoll(k)
  \/ \E k \in Slots : MonitorSetStatus(k)
  \/ \E k \in Slots : MonitorSaveExitCode(k)
  \/ \E k \in Slots : MonitorRemovePid(k)

DemoteSpec == DemoteInit /\ [][DemoteNext]_vars

\* ------------------------------------------- Scheduler.start / stop / _run
\* A scheduler over an empty registry: _check_and_run finds nothing to look at.
CtlInit ==
  /\ sched = NoSched
  /\ host = UserHost
  /\ now = 0
  /\ registry = [n \in SchedNames |-> None]
  /\ scripts = {}
  /\ files = [n \in SchedNames |-> [id \in Ids |-> NoArtifacts]]
  /\ procs = [p \in Slots |-> NoProc]
  /\ nex = 0
  /\ ex = [k \in Slots |-> NoExec]
  /\ pc = [i \in Instances |-> "idle"]
  /\ cur = [i \in Instances |-> NoCall]
  /\ ret = [i \in Instances |-> NoRet]
  /\ nstop = 0

\* Mutant of AlreadyRunning: start() does not look at the flag.
NeverRunning == FALSE

\* "if self.running: return" of start()
AlreadyRunning == sched.running

\* Scheduler.start()
SchedulerStart ==
  /\ sched.ctl = "idle"
  /\ sched.nstart < MaxStarts
  /\ IF AlreadyRunning
       THEN sched' = [sched EXCEPT !.nstart = @ + 1]
       ELSE sched' = [sched EXCEPT !.nstart = @ + 1,
                                   !.running = TRUE,
                                   !.loops = Append(@, "check"),
                                   !.thread = Len(sched.loops) + 1]
  /\ UNCHANGED <<host, nstop, now, registry, scripts, files, procs, nex, ex, pc, cur, ret>>

\* Scheduler.stop() up to the join
SchedulerStop ==
  /\ sched.ctl = "idle"
  /\ sched' = [sched EXCEPT !.running = FALSE, !.ctl = "join"]
  /\ UNCHANGED <<host, nstop, now, registry, scripts, files, procs, nex, ex, pc, cur, ret>>

\* "if self.thread: self.thread.join(timeout=5)": there is no thread, or the
\* thread has ended, or five seconds have passed.
SchedulerJoin ==
  /\ sched.ctl = "join"
  /\ sched' = [sched EXCEPT !.ctl = "idle"]
  /\ UNCHANGED <<host, nstop, now, registry, scripts, files, procs, nex, ex, pc, cur, ret>>

\* _run: "while self.running"
LoopCheck(t) ==
  /\ t \in 1..Len(sched.loops)
  /\ sched.loops[t] = "check"
  /\ sched' = [sched EXCEPT !.loops[t] = IF sched.running THEN "tick" ELSE "ended"]
  /\ UNCHANGED <<host, nstop, now, registry, scripts, files, procs, nex, ex, pc, cur, ret>>

\* _run: _check_and_run() with nothing registered
LoopTick(t) ==
  /\ t \in 1..Len(sched.loops)
  /\ sched.loops[t] = "tick"
  /\ ListProcesses = <<>>
  /\ sched' = [sched EXCEPT !.loops[t] = "sleep"]
  /\ UNCHANGED <<host, nstop, now, registry, scripts, files, procs, nex, ex, pc, cur, ret>>

\* _run: _check_and_run() raises, list_processes finding a registry file it
\* cannot load; "except Exception" prints the error and the while loop goes on.
LoopTickRaises(t) ==
  /\ t \in 1..Len(sched.loops)
  /\ sched.loops[t] = "tick"
  /\ sched' = [sched EXCEPT !.loops[t] = "check"]
  /\ UNCHANGED <<host, nstop, now, registry, scripts, files, procs, nex, ex, pc, cur, ret>>

\* _run: time.sleep(1)
LoopSleep(t) ==
  /\ t \in 1..Len(sched.loops)
  /\ sched.loops[t] = "sleep"
  /\ \E u \in ClockReads :
       /\ now' = u
       /\ sched' = [sched EXCEPT !.loops[t] = "check"]
  /\ UNCHANGED <<host, nstop, registry, scripts, files, procs, nex, ex, pc, cur, ret>>

CtlNext ==
  \/ SchedulerStart
  \/ SchedulerStop
  \/ SchedulerJoin
  \/ \E t \in 1..MaxStarts : LoopCheck(t)
  \/ \E t \in 1..MaxStarts : LoopTick(t)
  \/ \E t \in 1..MaxStarts : LoopTickRaises(t)
  \/ \E t \in 1..MaxStarts : LoopSleep(t)

CtlSpec == CtlInit /\ [][CtlNext]_vars

\* ------------------------------------------------- Storage: the registry
\* Two Storage objects of one user work on processes.json, instance 1 on
\* definition "a" and instance 2 on definition "b".
RegName(i) == SchedOrder[i]

\* The arguments of the register commands.
RegisterArgs ==
  {[script_path |-> "a.sh", cron_expr |-> None, description |-> ""],
   [script_path |-> "b.sh", cron_expr |-> Some(EveryMinute), description |-> "nightly"]}

\* The keyword arguments of the update commands: a key every definition has
\* and a key no definition has.
UpdateArgs == {[enabled |-> FALSE, color |-> "red"]}

RegInit ==
  /\ sched = NoSched
  /\ host = UserHost
  /\ now = 0
  /\ registry \in {[n \in SchedNames |-> IF n = "a" THEN None ELSE b] :
                     b \in {None, Some(Definition("b"))}}
  /\ scripts = SchedNames
  /\ files = [n \in SchedNames |-> [id \in Ids |-> NoArtifacts]]
  /\ procs = [p \in Slots |-> NoProc]
  /\ nex = 0
  /\ ex = [k \in Slots |-> NoExec]
  /\ pc = [i \in Instances |-> "idle"]
  /\ cur = [i \in Instances |-> NoCall]
  /\ ret = [i \in Instances |-> NoRet]
  /\ nstop = 0

\* A command calls register_process, unregister_process or update_process of
\* instance i.
StorageCall(i, op, kwargs) ==
  /\ pc[i] = "idle"
  /\ pc' = [pc EXCEPT ![i] = op]
  /\ cur' = [cur EXCEPT ![i] = [NoCall EXCEPT !.name = RegName(i), !.kwargs = kwargs]]
  /\ ret' = [ret EXCEPT ![i] = NoRet]
  /\ UNCHANGED <<host, sched, nstop, now, registry, scripts, files, procs, nex, ex>>

\* register_process up to the save: the registry is loaded and the entry of
\* name is set in the loaded dictionary.
RegisterProcess(i) ==
  /\ pc[i] = "register"
  /\ \E t \in ClockReads :
       /\ now' = t
       /\ cur' = [cur EXCEPT ![i].registry =
                    [registry EXCEPT ![cur[i].name] =
                       Some(NewDefinition(i, cur[i].name, cur[i].kwargs.script_path,
                                          cur[i].kwargs.cron_expr,
                                          cur[i].kwargs.description, t))]]
  /\ Goto(i, "register_save")
  /\ UNCHANGED <<host, sched, nstop, registry, scripts, files, procs, nex, ex, ret>>

\* unregister_process up to the save: the registry is loaded; a name that is
\* not in it -> False; else the entry is deleted from the loaded dictionary.
UnregisterProcess(i) ==
  /\ pc[i] = "unregister"
  /\ IF registry[cur[i].name] = None
       THEN Return(i, [op |-> "unregister", ok |-> FALSE, k |-> 0])
       ELSE /\ cur' = [cur EXCEPT ![i].registry = [registry EXCEPT ![cur[i].name] = None]]
            /\ Goto(i, "unregister_save")
            /\ UNCHANGED ret
  /\ UNCHANGED <<host, sched, nstop, now, registry, scripts, files, procs, nex, ex>>

\* Mutant of Updated: every key given is set, as dict.update does.
UpdatedAddingKeys(d, kwargs) ==
  [key \in DOMAIN d \cup DOMAIN kwargs |->
     IF key \in DOMAIN kwargs THEN kwargs[key] ELSE d[key]]

\* The loop of update_process over kwargs: a key the definition has is set,
\* any other key is passed over.
Updated(d, kwargs) ==
  [key \in DOMAIN d |-> IF key \in DOMAIN kwargs THEN kwargs[key] ELSE d[key]]

\* update_process up to the save: the registry is loaded; a name that is not
\* in it -> False; else the keys are set in the loaded dictionary.
UpdateProcess(i) ==
  /\ pc[i] = "update"
  /\ IF registry[cur[i].name] = None
       THEN Return(i, [op |-> "update", ok |-> FALSE, k |-> 0])
       ELSE /\ cur' = [cur EXCEPT ![i].registry =
                         [registry EXCEPT ![cur[i].name] =
                            Some(Updated(Val(@), cur[i].kwargs))]]
            /\ Goto(i, "update_save")
            /\ UNCHANGED ret
  /\ UNCHANGED <<host, sched, nstop, now, registry, scripts, files, procs, nex, ex>>

\* Mutant of Saved: only the entry of the call's name is written.
SavedEntry(i) == [registry EXCEPT ![cur[i].name] = cur[i].registry[cur[i].name]]

\* What _save_registry leaves in processes.json: the dictionary of the call.
Saved(i) == cur[i].registry

\* _save_registry and the return of the call.
SaveRegistry(i) ==
  /\ pc[i] \in {"register_save", "unregister_save", "update_save"}
  /\ registry' = Saved(i)
  /\ Return(i, [op |-> CHOOSE op \in {"register", "unregister", "update"} :
                         pc[i] = op \o "_save",
                ok |-> TRUE, k |-> 0])
  /\ UNCHANGED <<host, sched, nstop, now, scripts, files, procs, nex, ex>>

RegNext ==
  \/ \E i \in Instances, a \in RegisterArgs : StorageCall(i, "register", a)
  \/ \E i \in Instances : StorageCall(i, "unregister", <<>>)
  \/ \E i \in Instances, a \in UpdateArgs : StorageCall(i, "update", a)
  \/ \E i \in Instances : RegisterProcess(i)
  \/ \E i \in Instances : UnregisterProcess(i)
  \/ \E i \in Instances : UpdateProcess(i)
  \/ \E i \in Instances : SaveRegistry(i)

RegSpec == RegInit /\ [][RegNext]_vars

\* ================================================================ claims
Created == 1..nex
Terminal == {"completed", "failed", "stopped"}

HasPidFile(k) == PidFileExists(ex[k].name, ex[k].execution_id)
ExitCodeFile(k) == files[ex[k].name][ex[k].execution_id].exitcode

\* No other execution of the same name has the same execution_id (and with it
\* the same artifact files).
UniqueId(k) ==
  \A o \in Created :
    o # k /\ ex[o].name = ex[k].name => ex[o].execution_id # ex[k].execution_id

\* Every other execution of the same name has a smaller execution_id.
Latest(k) ==
  \A o \in Created :
    o # k /\ ex[o].name = ex[k].name => LexLess(ex[o].execution_id, ex[k].execution_id)

\* The last execution instance ex[k].owner constructed.
LastOf(k) == \A o \in Created : ex[o].owner = ex[k].owner => o <= k

\* The monitoring thread of k polls a running child nobody has signalled.
Undisturbed(k) ==
  ex[k].thread = "poll" /\ procs[k].state = "alive" /\ ~procs[k].term

\* No call is in progress and no monitoring thread is in its completion handling.
AtRest ==
  /\ \A i \in Instances : pc[i] = "idle"
  /\ \A k \in Created : ex[k].thread = "done" \/ Undisturbed(k)

C2_ExitCodeBeforePidFileRemoved ==
  \A k \in Created :
    UniqueId(k) /\ ex[k].started = "true" /\ ~HasPidFile(k) => ExitCodeFile(k) # None

C4_DiskRecordAgreesWithMemory ==
  \A k \in Created :
    (AtRest /\ ex[k].started = "true" /\ Latest(k))
    => LET d == InfoFromDisk(ex[k].name, Val(GetLatestExecutionId(ex[k].name)))
           m == GetInfo(k)
       IN /\ d.execution_id = m.execution_id
          /\ d.status = m.status
          /\ d.start_time = m.start_time
          /\ d.exit_code = m.exit_code

\* C5: whenever nothing is in progress, status(name) of any two instances gives
\* the same running flag and the same latest execution_id.
C5_InstancesAgree ==
  AtRest =>
    \A i, j \in Instances : \A n \in Names :
      LET a == GetProcessStatus(i, n)
          b == GetProcessStatus(j, n)
      IN /\ a.running = b.running
         /\ (a.latest_execution = None) = (b.latest_execution = None)
         /\ (a.latest_execution # None /\ b.latest_execution # None)
              => Val(a.latest_execution).execution_id = Val(b.latest_execution).execution_id

\* C6: for a run with arguments, the args-file holds them and the record a
\* separate instance composes has the fields of the in-memory record, with the
\* same arguments.
C6_ArgsReportedFromDisk ==
  \A k \in Created :
    (ex[k].started = "true" /\ ex[k].args # <<>> /\ Latest(k))
    => LET d == InfoFromDisk(ex[k].name, ex[k].execution_id)
           m == GetInfo(k)
       IN /\ files[ex[k].name][ex[k].execution_id].args = Some(ex[k].args)
          /\ DOMAIN d = DOMAIN m
          /\ d.args = ex[k].args

\* C7: every change of a status is pending -> running or running -> completed,
\* failed or stopped (stated here granting the failure branch of start(), which
\* sets failed).
C7_StrictTransitions ==
  [][\A k \in Slots :
       ex'[k].status # ex[k].status =>
         \/ ex[k].status = "none" /\ ex'[k].status = "pending"
         \/ ex[k].status = "pending" /\ ex'[k].status = "running"
         \/ ex[k].status = "running" /\ ex'[k].status \in Terminal
         \/ ex[k].started = "no" /\ ex'[k].started = "false"]_vars

\* C8: a status that is completed, failed or stopped never changes again.
C8_TerminalStatusFinal ==
  [][\A k \in Slots : ex[k].status \in Terminal => ex'[k].status = ex[k].status]_vars

\* C9: an execution whose start() failed has status failed and exit code -1 and
\* stays in its owner's history; run() returned no handle; and as long as it is
\* the owner's last execution, the owner's status(name) reports it as the latest.
C9_LaunchFailureRecorded ==
  \A k \in Created :
    ex[k].started = "false" =>
      /\ ex[k].status = "failed"
      /\ ex[k].exit_code = Some(-1)
      /\ \E x \in 1..Len(History(ex[k].owner, ex[k].name)) :
           History(ex[k].owner, ex[k].name)[x] = k
      /\ (LastOf(k) /\ pc[ex[k].owner] = "idle" /\ ret[ex[k].owner].op = "run")
           => ~ret[ex[k].owner].ok
      /\ LastOf(k) =>
           LET st == GetProcessStatus(ex[k].owner, ex[k].name)
           IN /\ st.latest_execution = Some(GetInfo(k))
              /\ Val(st.latest_execution).status = "failed"
              /\ Val(st.latest_execution).exit_code = Some(-1)

C9_Witness ==
  \E k \in Created :
    /\ ex[k].started = "false"
    /\ LastOf(k)
    /\ pc[ex[k].owner] = "idle"
    /\ ret[ex[k].owner] = [op |-> "run", ok |-> FALSE, k |-> 0]

\* C10: run(name) for a name that is not registered, is disabled or has no
\* script returns no handle and changes nothing: not the history, not the
\* registry, not an artifact, not a process.
C10_RejectedRunHasNoEffect ==
  [][\A i \in Instances :
       (/\ pc[i] = "run_check"
        /\ pc'[i] # "run_check"
        /\ \/ registry[cur[i].name] = None
           \/ ~Val(registry[cur[i].name]).enabled
           \/ Val(registry[cur[i].name]).script_path \notin scripts)
       => /\ pc'[i] = "idle"
          /\ ret'[i] = [op |-> "run", ok |-> FALSE, k |-> 0]
          /\ UNCHANGED <<registry, scripts, files, procs, nex, ex>>]_vars

C10_Witness ==
  \E i \in Instances, n \in Names :
    /\ registry[n] # None
    /\ ~Val(registry[n]).enabled
    /\ n \in scripts
    /\ pc[i] = "idle"
    /\ ret[i] = [op |-> "run", ok |-> FALSE, k |-> 0]
    /\ nex = 0

\* The caller thread of instance i takes the step.
Steps(i) == pc'[i] # pc[i] \/ ret'[i] # ret[i]

StopTrue == [op |-> "stop", ok |-> TRUE, k |-> 0]
StopFalse == [op |-> "stop", ok |-> FALSE, k |-> 0]

\* C11: stop(name) returns False when no execution of name is running in the
\* instance's history and the latest execution on disk has no pid-file; and it
\* returns True when the running execution it found, in memory or by its
\* pid-file, has a pid that is no process any more.
C11_StopReturnValues ==
  [][\A i \in Instances :
       /\ (/\ pc[i] = "idle" /\ nstop' # nstop /\ Steps(i)
           /\ \A n \in Names :
                /\ GetRunningExecution(i, n) = 0
                /\ \/ GetLatestExecutionId(n) = None
                   \/ ~PidFileExists(n, Val(GetLatestExecutionId(n))))
          => pc'[i] = "idle" /\ ret'[i] = StopFalse
       /\ (/\ pc[i] = "stop_mem" /\ Steps(i)
           /\ ex[cur[i].k].status = "running"
           /\ ~PidExists(Val(ex[cur[i].k].pid)))
          => pc'[i] = "idle" /\ ret'[i].op = "stop" /\ ret'[i].ok
       /\ (pc[i] = "stop_fs" /\ Steps(i) /\ ~PidExists(cur[i].pid))
          => pc'[i] = "idle" /\ ret'[i] = StopTrue]_vars

\* C12: when the wait of a stop ends with the child still alive, the stop kills
\* the child and returns True, in ProcessExecution.stop and in stop_process alike.
C12_KillAfterGracePeriod ==
  [][\A i \in Instances :
       /\ (/\ pc[i] = "stop_mem_wait" /\ Steps(i)
           /\ procs[Val(ex[cur[i].k].pid)].state = "alive")
          => /\ procs'[Val(ex[cur[i].k].pid)].state # "alive"
             /\ pc'[i] = "idle" /\ ret'[i].op = "stop" /\ ret'[i].ok
       /\ (pc[i] = "stop_fs_wait" /\ Steps(i) /\ procs[cur[i].pid].state = "alive")
          => pc'[i] = "stop_fs_kill"
       /\ (pc[i] = "stop_fs_kill" /\ Steps(i) /\ procs[cur[i].pid].state = "alive")
          => procs'[cur[i].pid].state # "alive" /\ pc'[i] = "stop_fs_kill_unlink"
       /\ (pc[i] = "stop_fs_kill_unlink" /\ Steps(i))
          => pc'[i] = "idle" /\ ret'[i] = StopTrue]_vars

\* C13: when stop_process of an instance without a record of name has
\* terminated the execution it found on disk and returns True, the
\* exit-code-file of that execution holds -15, after the wait that returned
\* and after the kill alike.
C13_SentinelAfterDiskStop ==
  [][\A i \in Instances :
       (/\ pc[i] \in {"stop_fs_exitcode", "stop_fs_kill_unlink"}
        /\ History(i, cur[i].name) = <<>>
        /\ pc'[i] = "idle" /\ ret'[i] = StopTrue)
       => files'[cur[i].name][cur[i].id].exitcode = Some(-SIGTERM)]_vars

\* C14: once stop_process has terminated the process it found on disk, it
\* returns True whatever happens to the removal of the pid-file and to the
\* writing of the exit-code-file.
C14_CleanupNeverFailsStop ==
  [][\A i \in Instances :
       (/\ pc[i] \in {"stop_fs_unlink", "stop_fs_exitcode", "stop_fs_kill_unlink"}
        /\ pc'[i] = "idle")
       => ret'[i] = StopTrue]_vars

\* C15: of two executions of one name, the one constructed later has the
\* strictly greater execution_id.
C15_IdsStrictlyIncrease ==
  \A k, o \in Created :
    k < o /\ ex[k].name = ex[o].name => LexLess(ex[k].execution_id, ex[o].execution_id)

\* The last execution of its name in its owner's history.
LastInHistory(k) ==
  LET h == History(ex[k].owner, ex[k].name) IN h[Len(h)] = k

C16_ExitObservedDespiteDescendant ==
  \A k \in Slots :
    (ex[k].thread = "poll" /\ procs[k].state = "zombie")
      ~> (k \in Created /\ ex[k].status # "running" /\ ~HasPidFile(k))

C16_Witness ==
  \E k \in Created :
    /\ procs[k].desc
    /\ ex[k].thread = "done"
    /\ ex[k].status \in {"completed", "failed"}
    /\ ~HasPidFile(k)

\* Minute boundaries up to the first one the clock of a behaviour cannot reach.
Boundaries == {t \in 1..(MaxSchedTime + MinuteTicks) : t % MinuteTicks = 0}

\* The entries of sched.runs for name n whose due time is b.
RunsFor(n, b) == {x \in 1..Len(sched.runs) : sched.runs[x][1] = n /\ sched.runs[x][2] = b}

\* C18: whenever the run_process called by the scheduler constructs an
\* execution, the definition of that name in the registry is enabled and has a
\* cron expression, and so has the definition the tick read; so a process
\* disabled after the tick read the registry is not started, and a process
\* without a cron expression is not started.
C18_SchedulerStartsOnlyEnabledWithCron ==
  [][nex' = nex + 1 =>
       LET n == ex'[nex'].name
           d == sched.processes[sched.idx]
       IN /\ registry[n] # None
          /\ Val(registry[n]).enabled
          /\ Val(registry[n]).cron_expr # None
          /\ sched.pc = "run" /\ d.name = n /\ d.enabled /\ d.cron_expr # None]_vars

C18_Witness ==
  /\ sched.pc = "run"
  /\ pc[1] = "idle"
  /\ ret[1] = [op |-> "run", ok |-> FALSE, k |-> 0]
  /\ sched.processes[sched.idx].enabled
  /\ ~Val(registry[sched.processes[sched.idx].name]).enabled
  /\ History(1, sched.processes[sched.idx].name) = <<>>
  /\ \E n \in SchedNames : Val(registry[n]).cron_expr = None

\* C19 as claimed: for a process that stays enabled, every minute boundary that
\* passes, from its first due time to the time of its last scheduled run, has
\* exactly one run of the process.
C19_ExactlyOnePerBoundary ==
  \A n \in SchedNames : \A b \in Boundaries :
    sched.ntoggle = 0 =>
    /\ Cardinality(RunsFor(n, b)) <= 1
    /\ (\E x, y \in 1..Len(sched.runs) :
          /\ sched.runs[x][1] = n /\ sched.runs[y][1] = n
          /\ sched.runs[x][2] <= b /\ b <= sched.runs[y][3])
       => Cardinality(RunsFor(n, b)) = 1

\* C19 amended: a minute boundary has at most one run of a process that
\* returned; every run is for a boundary that has been reached, and the next run
\* of the process is for a boundary after the time of this one, so that the
\* boundaries that passed in between have none.
C19_AtMostOnePerBoundary ==
  /\ \A n \in SchedNames : \A b \in Boundaries : Cardinality(RunsFor(n, b)) <= 1
  /\ \A x \in 1..Len(sched.runs) :
       /\ sched.runs[x][2] \in Boundaries
       /\ sched.runs[x][2] <= sched.runs[x][3]
       /\ \A y \in 1..Len(sched.runs) :
            (x < y /\ sched.runs[x][1] = sched.runs[y][1]) => sched.runs[x][3] < sched.runs[y][2]

C19_Witness ==
  \E x, y \in 1..Len(sched.runs) :
    /\ x < y
    /\ sched.runs[x][1] = sched.runs[y][1]
    /\ ex[1].started = "true" /\ ex[2].started = "true"

\* C20: an error in the iteration for one definition, the cron expression that
\* cannot be parsed or run_process that raises, leaves the scheduler in the same
\* tick at the next definition, and the loop keeps running.
C20_ErrorsAreIsolated ==
  [][/\ sched'.running = sched.running
     /\ (/\ sched.pc = "loop" /\ sched.idx <= Len(sched.processes) /\ sched' # sched
         /\ sched'.ntoggle = sched.ntoggle
         /\ ~SchedSkips(sched.processes[sched.idx])
         /\ sched.next_runs[sched.processes[sched.idx].name] = None
         /\ Val(sched.processes[sched.idx].cron_expr) = Malformed)
        => /\ sched'.pc = "loop" /\ sched'.idx = sched.idx + 1
           /\ sched'.processes = sched.processes
     /\ (sched.pc = "run" /\ sched'.pc # "run" /\ ret[1].op = "raise")
        => /\ sched'.pc = "loop" /\ sched'.idx = sched.idx + 1
           /\ sched'.processes = sched.processes]_vars

C20_Witness ==
  /\ Val(registry["a"]).cron_expr = Some(Malformed)
  /\ \E x \in 1..Len(sched.runs) : sched.runs[x][1] = "b"
  /\ ex[1].name = "b" /\ ex[1].started = "true"

\* C26: for an instance without executions of name in memory,
\* get_process_status reports nothing and running false when name has no stdout
\* log; otherwise it reports the greatest id that has a stdout log, as running
\* (with running true) iff the pid-file of that id exists and the pid in it
\* answers the probe, as completed (with running false) otherwise, with the
\* content of the exit-code-file as exit code, unknown when there is no such file.
C26_StatusFromArtifacts ==
  \A j \in Instances : \A n \in Names :
    History(j, n) = <<>> =>
      LET st == GetProcessStatus(j, n)
          logged == {id \in Ids : files[n][id].log}
      IN IF logged = {}
           THEN st.latest_execution = None /\ ~st.running
           ELSE \E id \in logged :
                  LET probe == /\ files[n][id].pid # None
                               /\ procs[Val(files[n][id].pid)].state \in {"alive", "zombie"}
                      info == Val(st.latest_execution)
                  IN /\ \A o \in logged : o = id \/ LexLess(o, id)
                     /\ st.latest_execution # None
                     /\ info.execution_id = id
                     /\ info.status = IF probe THEN "running" ELSE "completed"
                     /\ st.running = probe
                     /\ info.exit_code = files[n][id].exitcode

C26_Witness ==
  \E j \in Instances : \E n \in Names :
    /\ History(j, n) = <<>>
    /\ Cardinality({id \in Ids : files[n][id].log}) = 2
    /\ GetProcessStatus(j, n).running
    /\ \E id \in Ids : files[n][id].log /\ files[n][id].exitcode # None

\* C27: the scheduler calls run_process for a name only when get_running_execution
\* of its ProcessManager finds no running execution of it; a process with a
\* running execution is passed over and its next_runs entry stays as it is.
C27_NoRunWhileRunning ==
  [][/\ (sched.pc = "loop" /\ sched'.pc = "run")
        => GetRunningExecution(1, sched.processes[sched.idx].name) = 0
     /\ (/\ sched.pc = "loop" /\ sched.idx <= Len(sched.processes)
         /\ sched'.ntoggle = sched.ntoggle /\ sched' # sched
         /\ GetRunningExecution(1, sched.processes[sched.idx].name) # 0)
        => /\ sched'.pc = "loop" /\ sched'.idx = sched.idx + 1
           /\ sched'.next_runs = sched.next_runs
           /\ UNCHANGED <<pc, nex>>]_vars

C27_Witness ==
  /\ sched.pc = "loop"
  /\ sched.idx = 2
  /\ GetRunningExecution(1, sched.processes[1].name) # 0
  /\ sched.next_runs[sched.processes[1].name] # None
  /\ Val(sched.next_runs[sched.processes[1].name]) <= now

\* C28: whenever stop signals a process tree, with SIGTERM or with SIGKILL, from
\* ProcessExecution.stop or from stop_process, each signal to the descendants it
\* has enumerated is sent before the same signal to the process itself.
C28_DescendantsSignalledFirst ==
  \A p \in Slots : \A j \in 1..Len(procs[p].sigs) :
    procs[p].sigs[j][1] = "child" =>
      /\ j < Len(procs[p].sigs)
      /\ procs[p].sigs[j + 1] = <<"parent", procs[p].sigs[j][2]>>

C28_Witness ==
  \E p \in Slots :
    /\ Len(procs[p].sigs) = 4
    /\ procs[p].sigs[1] = <<"child", SIGTERM>>
    /\ procs[p].sigs[3] = <<"child", SIGKILL>>

\* Instance 1 is the only writer of the registry so far.
SingleWriter == pc[2] = "idle" /\ ret[2] = NoRet

\* The call of instance i ends in this step.
Ends(i, label) == pc[i] = label /\ pc'[i] = "idle"

\* C23: with a single writer, a register call leaves under its name a
\* definition with the script path, cron expression and description of the
\* call, enabled and owned by the caller, whatever was there before; an
\* unregister call leaves no definition under its name and returns True iff
\* there was one; no other call and no other step makes a name registered or
\* unregistered, each call leaves the other names as they are, and
\* list_processes returns the registered definitions and nothing else.
C23_RegistryFollowsLastCall ==
  [][(SingleWriter /\ SingleWriter') =>
       LET n == cur[1].name
           others == \A m \in SchedNames \ {n} : registry'[m] = registry[m]
       IN /\ Ends(1, "register_save") =>
               /\ registry'[n] # None
               /\ Val(registry'[n]).name = n
               /\ Val(registry'[n]).script_path = cur[1].kwargs.script_path
               /\ Val(registry'[n]).cron_expr = cur[1].kwargs.cron_expr
               /\ Val(registry'[n]).description = cur[1].kwargs.description
               /\ Val(registry'[n]).enabled
               /\ Val(registry'[n]).owner_uid = UidOf(1)
               /\ others
               /\ ret'[1] = [op |-> "register", ok |-> TRUE, k |-> 0]
          /\ Ends(1, "unregister_save") =>
               /\ registry[n] # None
               /\ registry'[n] = None
               /\ others
               /\ ret'[1] = [op |-> "unregister", ok |-> TRUE, k |-> 0]
          /\ Ends(1, "unregister") =>
               /\ registry[n] = None
               /\ registry' = registry
               /\ ret'[1] = [op |-> "unregister", ok |-> FALSE, k |-> 0]
          /\ (pc[1] = "unregister" /\ registry[n] # None) => pc'[1] = "unregister_save"
          /\ ~(Ends(1, "register_save") \/ Ends(1, "unregister_save")) =>
               \A m \in SchedNames : (registry'[m] = None) <=> (registry[m] = None)
          /\ {ListProcesses'[x] : x \in 1..Len(ListProcesses')}
               = {Val(registry'[m]) : m \in {m \in SchedNames : registry'[m] # None}}
          /\ Len(ListProcesses') = Cardinality({m \in SchedNames : registry'[m] # None})]_vars

\* The single writer is about to save the unregister of a definition that it
\* registered at time 1 beside the definition of another name.
C23_Witness ==
  /\ SingleWriter
  /\ pc[1] = "unregister_save"
  /\ registry["a"] # None
  /\ Val(registry["a"]).enabled
  /\ Val(registry["a"]).description = "nightly"
  /\ Val(registry["a"]).created_at = IsoFormat(1)
  /\ registry["b"] # None

\* C24: with a single writer, update_process on a registered name returns True
\* and sets, in the definition of that name, the keys given that the definition
\* has; it adds no key, changes no other key and no other definition. On a
\* name that is not registered it returns False and the registry stays as it is.
C24_UpdateFrame ==
  [][(SingleWriter /\ SingleWriter') =>
       LET n == cur[1].name
           kw == cur[1].kwargs
       IN /\ Ends(1, "update") =>
               /\ registry[n] = None
               /\ registry' = registry
               /\ ret'[1] = [op |-> "update", ok |-> FALSE, k |-> 0]
          /\ (pc[1] = "update" /\ registry[n] # None) =>
               pc'[1] = "update_save" /\ registry' = registry
          /\ Ends(1, "update_save") =>
               /\ registry[n] # None
               /\ registry'[n] # None
               /\ DOMAIN Val(registry'[n]) = DOMAIN Val(registry[n])
               /\ \A key \in DOMAIN Val(registry[n]) :
                    Val(registry'[n])[key] =
                      IF key \in DOMAIN kw THEN kw[key] ELSE Val(registry[n])[key]
               /\ \A m \in SchedNames \ {n} : registry'[m] = registry[m]
               /\ ret'[1] = [op |-> "update", ok |-> TRUE, k |-> 0]]_vars

C24_Witness ==
  /\ SingleWriter
  /\ pc[1] = "idle"
  /\ ret[1] = [op |-> "update", ok |-> TRUE, k |-> 0]
  /\ registry["a"] # None
  /\ ~Val(registry["a"]).enabled
  /\ "color" \notin DOMAIN Val(registry["a"])
  /\ registry["b"] # None

\* C25: no lock orders the registry calls of two instances: a call's save
\* writes, for every name other than its own, what the call had loaded, whatever
\* another call has saved there since; so two calls on different names can both
\* return normally with the change of one of them absent from the registry.
C25_SaveOverwritesWithLoaded ==
  [][\A i \in Instances :
       (pc[i] \in {"register_save", "unregister_save", "update_save"} /\ pc'[i] = "idle") =>
         /\ \A m \in SchedNames \ {cur[i].name} : registry'[m] = cur[i].registry[m]
         /\ ret'[i].ok]_vars

\* Both register calls have returned normally and "a" is not registered.
C25_Witness ==
  /\ pc = [i \in Instances |-> "idle"]
  /\ ret[1] = [op |-> "register", ok |-> TRUE, k |-> 0]
  /\ ret[2] = [op |-> "register", ok |-> TRUE, k |-> 0]
  /\ registry["a"] = None
  /\ registry["b"] # None

\* The threads of start() that have not left _run.
LiveLoops == {t \in 1..Len(sched.loops) : sched.loops[t] # "ended"}

\* C21: start() on a running scheduler changes nothing: no thread is created,
\* the flag and self.thread stay, so that after start(); start() one loop runs;
\* start() on a scheduler that is not running sets the flag and creates one
\* thread. stop() on a scheduler that is not running changes neither the flag
\* nor the threads. When stop() returns, running is false, and a loop that
\* checks the flag while it is false leaves _run.
C21_StartStopIdempotent ==
  [][/\ (sched'.nstart = sched.nstart + 1 /\ sched.running) =>
          sched' = [sched EXCEPT !.nstart = @ + 1]
     /\ (sched'.nstart = sched.nstart + 1 /\ ~sched.running) =>
          /\ sched'.running
          /\ Len(sched'.loops) = Len(sched.loops) + 1
          /\ LiveLoops' = LiveLoops \cup {sched'.thread}
          /\ sched'.thread \notin LiveLoops
     /\ (sched'.nstart = 2 /\ sched.nstart = 1 /\ sched.running /\ Len(sched.loops) = 1) =>
          Cardinality(LiveLoops') = 1
     /\ (sched.ctl = "idle" /\ sched'.ctl = "join" /\ ~sched.running) =>
          sched' = [sched EXCEPT !.ctl = "join"]
     /\ (sched.ctl = "join" /\ sched'.ctl = "idle") =>
          /\ ~sched'.running
          /\ sched' = [sched EXCEPT !.ctl = "idle"]
     /\ \A t \in 1..Len(sched.loops) :
          (sched.loops[t] = "check" /\ sched'.loops[t] # "check" /\ ~sched.running) =>
            sched'.loops[t] = "ended"]_vars

\* start(); start(); stop(); stop() has been called and the one loop has ended.
C21_Witness ==
  /\ sched.nstart = 2
  /\ sched.loops = <<"ended">>
  /\ sched.ctl = "idle"
  /\ ~sched.running

\* C22: get_process_status on an instance without executions of name never
\* raises, whatever the pid-file and the exit-code-file of the latest execution
\* are: missing, not readable or with a text that is no number. Without a
\* pid-file that can be read as a number the record says completed and running
\* is false; without an exit-code-file that can be read as a number the exit
\* code is unknown.
C22_StatusNeverFails ==
  \A i \in Instances :
    /\ ret[i].op # "raise"
    /\ (ret[i].op = "status" /\ ret[i].status.latest_execution # None) =>
         LET info == Val(ret[i].status.latest_execution)
             a == files[info.name][info.execution_id]
         IN /\ (a.pid = None \/ a.pid_read # "ok") =>
                 info.status = "completed" /\ ~ret[i].status.running
            /\ (a.exitcode = None \/ a.exitcode_read # "ok") => info.exit_code = None

\* C30: self.lock of a ProcessManager is held only around reads and writes of
\* self.executions: no call holds it while it lists the logs directory, reads
\* a pid-file or exit-code-file or probes a pid.
C30_LockOnlyAroundHistory ==
  \A i \in Instances :
    cur[i].locked => pc[i] \notin {"status_scan", "status_pid", "status_exitcode"}

\* C29: in a program that runs as root, the preexec_fn of the child calls
\* setgid with the group of the target user and then setuid with the target
\* user, in this order, and the child runs as that user and group; in a program
\* that does not run as root the child makes no such call and runs with the
\* user and group of the program.
C29_GroupBeforeUser ==
  \A k \in Slots :
    procs[k].state # "none" =>
      LET i == procs[k].parent
      IN IF host.getuid[i] = Root
           THEN /\ GetPwGid(UidOf(i)) # None =>
                     /\ procs[k].preexec = << <<"setgid", Val(GetPwGid(UidOf(i)))>>,
                                              <<"setuid", UidOf(i)>> >>
                     /\ procs[k].cred = Some([uid |-> UidOf(i), gid |-> Val(GetPwGid(UidOf(i)))])
                /\ \A x, y \in 1..Len(procs[k].preexec) :
                     (procs[k].preexec[x][1] = "setuid" /\ procs[k].preexec[y][1] = "setgid")
                       => y < x
           ELSE /\ procs[k].preexec = <<>>
                /\ procs[k].cred = Some(LauncherCred(i))

\* A child of a program of root runs the script after the two calls.
C29_Witness ==
  \E k \in Slots :
    /\ procs[k].state = "alive"
    /\ host.getuid[procs[k].parent] = Root
    /\ Len(procs[k].preexec) = 2
    /\ ex[k].status = "running"

\* C31: self.next_runs of the Scheduler is read and written only by a thread
\* that holds self.lock: while a caller of get_next_run holds the lock the
\* loop does not change the mapping.
C31_NextRunsUnderLock ==
  [][sched.lock => sched'.next_runs = sched.next_runs]_vars

\* C32: a loop thread that leaves _check_and_run, normally or by an exception,
\* sleeps before it tests the flag and calls _check_and_run again.
C32_SleepBetweenTicks ==
  [][\A t \in 1..Len(sched.loops) :
       (sched.loops[t] = "tick" /\ sched'.loops[t] # "tick") => sched'.loops[t] = "sleep"]_vars

\* C35: whatever start() and stop() calls are made on a Scheduler, at most one
\* of the threads it has started is in the loop of _run.
C35_AtMostOneLoop == Cardinality(LiveLoops) <= 1

\* C33: when start() has returned False, the execution has no child that
\* still runs.
C33_FailedStartLeavesNoChild ==
  \A k \in Created : ex[k].started = "false" => procs[k].state # "alive"

\* C34: when stop_process(name) returns True in an instance, no execution of
\* name that the instance's history records as running, other than the one the
\* call has stopped, is still running as a process.
C34_StopLeavesNoneAlive ==
  [][\A i \in Instances :
       (pc[i] # "idle" /\ pc'[i] = "idle" /\ ret'[i].op = "stop" /\ ret'[i].ok) =>
         \A k \in Created :
           (ex[k].owner = i /\ ex[k].name = cur[i].name
              /\ ex[k].status = "running" /\ ex[k].started = "true"
              /\ k # cur[i].k /\ k # cur[i].pid)
             => procs'[k].state # "alive"]_vars

\* The executions of name that instance 1 holds with status running.
RunningInMemory(name) ==
  {k \in Created : ex[k].owner = 1 /\ ex[k].name = name /\ ex[k].status = "running"}

\* C36: in an instance where only the scheduler loop calls run_process, at
\* most one execution of a name has status running at any time.
C36_OneRunningPerName ==
  \A n \in SchedNames : Cardinality(RunningInMemory(n)) <= 1

\* A second execution of a name runs after the first has ended.
C36_Witness ==
  \E n \in SchedNames :
    /\ Cardinality(RunningInMemory(n)) = 1
    /\ \E k \in Created : ex[k].name = n /\ ex[k].status \in {"completed", "failed"}
                          /\ ex[k].thread = "done"

\* C37: the exit-code-file of an execution with an execution_id of its own,
\* once written, keeps its content.
C37_ExitCodeWrittenOnce ==
  [][\A k \in Created :
       (UniqueId(k) /\ files[ex[k].name][ex[k].execution_id].exitcode # None) =>
         files'[ex[k].name][ex[k].execution_id].exitcode
           = files[ex[k].name][ex[k].execution_id].exitcode]_vars

C39_TriggerAtDueOfCurrentCron ==
  [][(sched.pc = "loop" /\ sched'.pc = "run") =>
       LET d == sched.processes[sched.idx]
       IN d.cron_expr = Val(registry[d.name]).cron_expr
            => IsDue(Val(d.cron_expr), Val(sched'.next_runs[d.name]))]_vars

\* C40: a definition that the loop does not pass over, with a cached due time
\* that has been reached (by however many due times), is triggered in that
\* iteration, once; and when run_process has returned, one run is recorded and
\* the cached due time becomes the first due time after the time of the
\* trigger, so that no due time up to the trigger gets a run of its own.
C40_OneRunAfterLongRun ==
  [][/\ (/\ sched.pc = "loop" /\ sched.idx <= Len(sched.processes) /\ sched' # sched
         /\ ~SchedSkips(sched.processes[sched.idx])
         /\ sched.next_runs[sched.processes[sched.idx].name] # None
         /\ Val(sched.next_runs[sched.processes[sched.idx].name]) <= now')
        => /\ sched'.pc = "run" /\ sched'.tnow = now'
           /\ sched'.next_runs = sched.next_runs
           /\ pc'[1] = "run_check" /\ cur'[1].name = sched.processes[sched.idx].name
     /\ (sched.pc = "run" /\ sched'.pc # "run" /\ ret[1].op # "raise")
        => LET n == sched.processes[sched.idx].name
               due == Val(sched'.next_runs[n])
           IN /\ Len(sched'.runs) = Len(sched.runs) + 1
              /\ nex' = nex
              /\ due > sched.tnow
              /\ IsDue(EveryMinute, due)
              /\ \A b \in (sched.tnow + 1)..(due - 1) : ~IsDue(EveryMinute, b)
              /\ sched'.pc = "loop" /\ sched'.idx = sched.idx + 1]_vars

\* The second run of "a" has been triggered when its first execution had ended
\* and two due times had passed, and the next due time is after the trigger.
C40_Witness ==
  /\ Len(sched.runs) = 2
  /\ sched.runs[1][1] = "a" /\ sched.runs[2][1] = "a"
  /\ ex[1].thread = "done" /\ ex[2].started = "true"
  /\ sched.runs[2][3] >= sched.runs[2][2] + MinuteTicks
  /\ Val(sched.next_runs["a"]) > sched.runs[2][3]

====
